---- MODULE Spec2Model ----
(***************************************************************************)
(* A model of the versioned, permissioned, append-only Sequence of         *)
(* src/src/sequence.rs: one Sequence<P, S> object (any of the four         *)
(* flavours), driven by calls of its methods.                              *)
(***************************************************************************)
EXTENDS Integers, Sequences, FiniteSets, TLC

VARIABLES
    address,      \* Sequence.address: [kind, name, tag]
    data,         \* Sequence.data: Vec<Value>
    permissions,  \* Sequence.permissions: Vec<P>
    owners,       \* Sequence.owners: Vec<Owner>
    registered,   \* the transfers a section has registered, in order
    process,      \* the process: "sound", "damaged" by a data race, or "dead"
    call,         \* the last method call and its arguments
    result        \* what that call returned

vars == <<address, data, permissions, owners, registered, process, call, result>>

(***************************************************************************)
(* Bounds of the model.                                                    *)
(***************************************************************************)
\* the runs explored hold at most MaxEntries entries in all, counting the
\* values of the data log and the entries of the two histories
MaxEntries == 3
\* the range queries, whose two bounds multiply, are explored on the objects
\* that hold at most MaxRangeEntries entries in all
MaxRangeEntries == 2

(***************************************************************************)
(* Input domains.                                                          *)
(***************************************************************************)
Keys == {"k1", "k2"}

\* the lists of values an append call may carry (the empty list included)
ValueLists == {<<>>, <<"a">>, <<"b">>, <<"a", "b">>}

\* an index argument as a caller may hold it: the current length, the length
\* one push ago, or one too far
Near(n) == {m \in {n - 1, n, n + 1} : m >= 0}

\* the three indices of a set_owner / set_permissions call, given the three
\* current lengths: all current, exactly one of them stale by one push, or
\* any of them one too far
IndexTriples(a, b, c) ==
    {t \in Near(a) \X Near(b) \X Near(c) :
        \/ (t[1] >= a /\ t[2] >= b /\ t[3] >= c)
        \/ (t[1] < a /\ t[2] = b /\ t[3] = c)
        \/ (t[1] = a /\ t[2] < b /\ t[3] = c)
        \/ (t[1] = a /\ t[2] = b /\ t[3] < c)}

Names == {1}

Tags == {10000}

Kinds == {"PublicSentried", "Public", "PrivateSentried", "Private"}

\* shared_data::Kind::is_public
is_public(kind) == kind \in {"PublicSentried", "Public"}

\* shared_data::Kind::is_sentried
is_sentried(kind) == kind \in {"PublicSentried", "PrivateSentried"}

\* permissions::Request: a read-class query or a command
Query(q) == [type |-> "Query", op |-> q]

Cmd(c) == [type |-> "Cmd", op |-> c]

Requests == {Query("ReadData"), Cmd("Append"), Cmd("ModifyPermissions")}

\* shared_data::User::Anyone, the wildcard key of a public permission table
Anyone == "Anyone"

\* BTreeMap<Request, bool> literals
NoSet == [r \in {} |-> TRUE]

Grant(r) == (r :> TRUE)

Deny(r) == (r :> FALSE)

\* BTreeMap<User, PublicPermissionSet> of the public flavours
PublicTables ==
    { [u \in {} |-> NoSet],
      (Anyone :> Grant(Cmd("Append"))) @@ ("k1" :> Grant(Cmd("ModifyPermissions"))),
      (Anyone :> (Deny(Query("ReadData")) @@ Grant(Cmd("ModifyPermissions"))
                    @@ Grant(Cmd("Append"))))
          @@ ("k1" :> (Deny(Cmd("Append")) @@ Deny(Query("ReadData")))) }

\* BTreeMap<PublicKey, PrivatePermissionSet> of the private flavours
PrivateTables ==
    { [u \in {} |-> NoSet],
      ("k1" :> (Grant(Cmd("Append")) @@ Grant(Query("ReadData"))
                  @@ Deny(Cmd("ModifyPermissions")))),
      ("k1" :> Deny(Cmd("Append")))
          @@ ("k2" :> (Grant(Query("ReadData")) @@ Grant(Cmd("ModifyPermissions")))) }

Tables(kind) == IF is_public(kind) THEN PublicTables ELSE PrivateTables

\* shared_data::Owner
Owner(pk, edi, epi) ==
    [public_key |-> pk, expected_data_index |-> edi, expected_permissions_index |-> epi]

\* permissions::PublicPermissions / permissions::PrivatePermissions
Permissions(table, edi, eoi) ==
    [permissions |-> table, expected_data_index |-> edi, expected_owners_index |-> eoi]

(***************************************************************************)
(* Results and errors.                                                     *)
(***************************************************************************)
Ok == [tag |-> "Ok"]

Err(e, n) == [tag |-> "Err", error |-> e, value |-> n]

Returned(v) == [tag |-> "Value", value |-> v]

\* the Sequence object as one record
Sequence(a, d, p, o) == [address |-> a, data |-> d, permissions |-> p, owners |-> o]

self == Sequence(address, data, permissions, owners)

\* Sequence::new of the four flavours
\* a constructor of the sentried private flavour that builds the address of
\* the private flavour without a sentry
new_private_sentried_as_private(kind, name, tag) ==
    Sequence([kind |-> IF kind = "PrivateSentried" THEN "Private" ELSE kind,
              name |-> name, tag |-> tag], <<>>, <<>>, <<>>)

new(kind, name, tag) ==
    Sequence([kind |-> kind, name |-> name, tag |-> tag], <<>>, <<>>, <<>>)

expected_data_index(s) == Len(s.data)

expected_owners_index(s) == Len(s.owners)

expected_permissions_index(s) == Len(s.permissions)


(***************************************************************************)
(* Index resolution (shared_data).                                         *)
(***************************************************************************)
None == [tag |-> "None"]

Some(v) == [tag |-> "Some", value |-> v]

FromStart(n) == [from |-> "Start", n |-> n]

FromEnd(n) == [from |-> "End", n |-> n]

\* index resolution that saturates at 0 instead of refusing a FromEnd(n)
\* beyond the start
to_absolute_index_saturating(index, count) ==
    IF index.from = "Start"
    THEN IF index.n <= count THEN Some(index.n) ELSE None
    ELSE IF index.n <= count THEN Some(count - index.n) ELSE Some(0)

\* FromStart(n) is n and FromEnd(n) is count - n, when n <= count
to_absolute_index(index, count) ==
    IF index.from = "Start"
    THEN IF index.n <= count THEN Some(index.n) ELSE None
    ELSE IF index.n <= count THEN Some(count - index.n) ELSE None

\* Vec::get with a 0-based position
get_at(vec, i) == IF i < Len(vec) THEN Some(vec[i + 1]) ELSE None

\* owner_at that answers a position at the end of the history with the last
\* entry
owner_at_clamped(s, index) ==
    LET i == to_absolute_index(index, Len(s.owners))
    IN  IF i = None THEN None
        ELSE IF i.value = Len(s.owners) /\ s.owners # <<>>
        THEN Some(s.owners[Len(s.owners)])
        ELSE get_at(s.owners, i.value)

\* Sequence::owner_at
owner_at(s, index) ==
    LET i == to_absolute_index(index, Len(s.owners))
    IN  IF i = None THEN None ELSE get_at(s.owners, i.value)

\* Sequence::permissions_at
permissions_at(s, index) ==
    LET i == to_absolute_index(index, Len(s.permissions))
    IN  IF i = None THEN None ELSE get_at(s.permissions, i.value)

(***************************************************************************)
(* Read accessors.                                                         *)
(***************************************************************************)
\* shared_data::to_absolute_range: both bounds resolve and start <= end
to_absolute_range(start, end, count) ==
    LET a == to_absolute_index(start, count)
        b == to_absolute_index(end, count)
    IN  IF a = None \/ b = None THEN None
        ELSE IF a.value <= b.value THEN Some([start |-> a.value, end |-> b.value])
        ELSE None

\* vec[range] for a half-open range of 0-based positions
slice(vec, range) == SubSeq(vec, range.start + 1, range.end)

\* Sequence::get
get(s, index) == get_at(s.data, index)

\* DataEntry::new
DataEntry(index, value) == [index |-> index, value |-> value]

\* Sequence::current_data_entry
current_data_entry(s) ==
    IF s.data # <<>>
    THEN Some(DataEntry(Len(s.data), s.data[Len(s.data)]))
    ELSE None

\* in_range that takes the end bound into the result
in_range_inclusive_end(s, start, end) ==
    LET range == to_absolute_range(start, end, Len(s.data))
    IN  IF range = None THEN None
        ELSE Some(SubSeq(s.data, range.value.start + 1,
                         IF range.value.end < Len(s.data)
                         THEN range.value.end + 1 ELSE range.value.end))

\* Sequence::in_range
in_range(s, start, end) ==
    LET range == to_absolute_range(start, end, Len(s.data))
    IN  IF range = None THEN None ELSE Some(slice(s.data, range.value))

\* Sequence::permission_history_range
permission_history_range(s, start, end) ==
    LET range == to_absolute_range(start, end, Len(s.permissions))
    IN  IF range = None THEN None ELSE Some(slice(s.permissions, range.value))

\* Sequence::owner_history_range
owner_history_range(s, start, end) ==
    LET range == to_absolute_range(start, end, Len(s.owners))
    IN  IF range = None THEN None ELSE Some(slice(s.owners, range.value))

NoSuchEntry == [tag |-> "Err", error |-> "NoSuchEntry"]

\* shell that keeps only the entries recorded strictly before the index
shell_exclusive(s, index) ==
    LET i == to_absolute_index(index, expected_data_index(s))
    IN  IF i = None THEN NoSuchEntry
        ELSE Returned(Sequence(s.address, <<>>,
                 SelectSeq(s.permissions, LAMBDA perm : perm.expected_data_index < i.value),
                 SelectSeq(s.owners, LAMBDA owner : owner.expected_data_index < i.value)))

\* shell that answers an index that does not resolve with the shell of the
\* whole history
shell_lenient(s, index) ==
    LET i == to_absolute_index(index, expected_data_index(s))
    IN  Returned(Sequence(s.address, <<>>,
            SelectSeq(s.permissions,
                      LAMBDA perm : i = None \/ perm.expected_data_index <= i.value),
            SelectSeq(s.owners,
                      LAMBDA owner : i = None \/ owner.expected_data_index <= i.value)))

\* shell that keeps the entries recorded at the index or after it
shell_since(s, index) ==
    LET i == to_absolute_index(index, expected_data_index(s))
    IN  IF i = None THEN NoSuchEntry
        ELSE Returned(Sequence(s.address, <<>>,
                 SelectSeq(s.permissions, LAMBDA perm : perm.expected_data_index >= i.value),
                 SelectSeq(s.owners, LAMBDA owner : owner.expected_data_index >= i.value)))

\* Sequence::shell
shell(s, index) ==
    LET i == to_absolute_index(index, expected_data_index(s))
    IN  IF i = None THEN NoSuchEntry
        ELSE Returned(Sequence(s.address, <<>>,
                 SelectSeq(s.permissions, LAMBDA perm : perm.expected_data_index <= i.value),
                 SelectSeq(s.owners, LAMBDA owner : owner.expected_data_index <= i.value)))

(***************************************************************************)
(* Mutating methods: each yields the returned Result and the object        *)
(* after the call.                                                         *)
(***************************************************************************)
Outcome(r, s) == [result |-> r, self |-> s]

\* set_owner without the check of the permissions index
set_owner_skip_permissions_check(s, owner, index) ==
    IF owner.expected_data_index # expected_data_index(s)
    THEN Outcome(Err("InvalidSuccessor", expected_data_index(s)), s)
    ELSE IF expected_owners_index(s) # index
    THEN Outcome(Err("InvalidSuccessor", expected_owners_index(s)), s)
    ELSE Outcome(Ok, [s EXCEPT !.owners = Append(@, owner)])

\* set_owner that pushes the entry before it checks the owners index
set_owner_push_before_index_check(s, owner, index) ==
    IF owner.expected_data_index # expected_data_index(s)
    THEN Outcome(Err("InvalidSuccessor", expected_data_index(s)), s)
    ELSE IF owner.expected_permissions_index # expected_permissions_index(s)
    THEN Outcome(Err("InvalidPermissionsSuccessor", expected_permissions_index(s)), s)
    ELSE IF expected_owners_index(s) # index
    THEN Outcome(Err("InvalidSuccessor", expected_owners_index(s)),
                 [s EXCEPT !.owners = Append(@, owner)])
    ELSE Outcome(Ok, [s EXCEPT !.owners = Append(@, owner)])

\* Sequence::set_owner
set_owner(s, owner, index) ==
    IF owner.expected_data_index # expected_data_index(s)
    THEN Outcome(Err("InvalidSuccessor", expected_data_index(s)), s)
    ELSE IF owner.expected_permissions_index # expected_permissions_index(s)
    THEN Outcome(Err("InvalidPermissionsSuccessor", expected_permissions_index(s)), s)
    ELSE IF expected_owners_index(s) # index
    THEN Outcome(Err("InvalidSuccessor", expected_owners_index(s)), s)
    ELSE Outcome(Ok, [s EXCEPT !.owners = Append(@, owner)])

\* set_permissions without the check of the owners index
set_permissions_skip_owners_check(s, perms, index) ==
    IF perms.expected_data_index # expected_data_index(s)
    THEN Outcome(Err("InvalidSuccessor", expected_data_index(s)), s)
    ELSE IF expected_permissions_index(s) # index
    THEN Outcome(Err("InvalidSuccessor", expected_permissions_index(s)), s)
    ELSE Outcome(Ok, [s EXCEPT !.permissions = Append(@, perms)])

\* set_permissions without the check of the data index
set_permissions_skip_data_check(s, perms, index) ==
    IF perms.expected_owners_index # expected_owners_index(s)
    THEN Outcome(Err("InvalidOwnersSuccessor", expected_owners_index(s)), s)
    ELSE IF expected_permissions_index(s) # index
    THEN Outcome(Err("InvalidSuccessor", expected_permissions_index(s)), s)
    ELSE Outcome(Ok, [s EXCEPT !.permissions = Append(@, perms)])

\* set_permissions that refuses an owners index only when it is beyond the
\* end of the owners history
set_permissions_accept_stale_owners(s, perms, index) ==
    IF perms.expected_data_index # expected_data_index(s)
    THEN Outcome(Err("InvalidSuccessor", expected_data_index(s)), s)
    ELSE IF perms.expected_owners_index > expected_owners_index(s)
    THEN Outcome(Err("InvalidOwnersSuccessor", expected_owners_index(s)), s)
    ELSE IF expected_permissions_index(s) # index
    THEN Outcome(Err("InvalidSuccessor", expected_permissions_index(s)), s)
    ELSE Outcome(Ok, [s EXCEPT !.permissions = Append(@, perms)])

\* Sequence::set_permissions
set_permissions(s, perms, index) ==
    IF perms.expected_data_index # expected_data_index(s)
    THEN Outcome(Err("InvalidSuccessor", expected_data_index(s)), s)
    ELSE IF perms.expected_owners_index # expected_owners_index(s)
    THEN Outcome(Err("InvalidOwnersSuccessor", expected_owners_index(s)), s)
    ELSE IF expected_permissions_index(s) # index
    THEN Outcome(Err("InvalidSuccessor", expected_permissions_index(s)), s)
    ELSE Outcome(Ok, [s EXCEPT !.permissions = Append(@, perms)])

\* a NonSentried append that puts the new values in front of the log
append_NonSentried_prepend(s, values) ==
    Outcome(Ok, [s EXCEPT !.data = values \o @])

\* Sequence<P, NonSentried>::append
append_NonSentried(s, values) ==
    Outcome(Ok, [s EXCEPT !.data = @ \o values])

\* a Sentried append that assigns the values instead of extending the log
append_Sentried_replace(s, values, expected_index) ==
    IF expected_index # Len(s.data)
    THEN Outcome(Err("InvalidSuccessor", Len(s.data)), s)
    ELSE Outcome(Ok, [s EXCEPT !.data = values])

\* a Sentried append that only refuses an index beyond the end of the log
append_Sentried_accept_stale(s, values, expected_index) ==
    IF expected_index > Len(s.data)
    THEN Outcome(Err("InvalidSuccessor", Len(s.data)), s)
    ELSE Outcome(Ok, [s EXCEPT !.data = @ \o values])

\* a Sentried append that refuses a call without values
append_Sentried_refuse_empty(s, values, expected_index) ==
    IF expected_index # Len(s.data) \/ values = <<>>
    THEN Outcome(Err("InvalidSuccessor", Len(s.data)), s)
    ELSE Outcome(Ok, [s EXCEPT !.data = @ \o values])

\* Sequence<P, Sentried>::append
append_Sentried(s, values, expected_index) ==
    IF expected_index # Len(s.data)
    THEN Outcome(Err("InvalidSuccessor", Len(s.data)), s)
    ELSE Outcome(Ok, [s EXCEPT !.data = @ \o values])

(***************************************************************************)
(* Permission evaluation.                                                  *)
(***************************************************************************)
\* PublicPermissionSet::is_permitted: the entry's decision, if it has one
set_is_permitted(set, request) ==
    IF request \in DOMAIN set THEN Some(set[request]) ELSE None

\* PublicPermissions::is_permitted_: the decision of one user's entry
table_is_permitted(table, user, request) ==
    IF user \in DOMAIN table THEN set_is_permitted(table[user], request) ELSE None

\* PublicPermissions::is_permitted: the key's own entry, else Anyone's
PublicPermissions_is_permitted(perms, user, request) ==
    LET own == table_is_permitted(perms.permissions, user, request)
        any == table_is_permitted(perms.permissions, Anyone, request)
    IN  IF own # None THEN own.value
        ELSE IF any # None THEN any.value
        ELSE FALSE

\* PrivatePermissions::is_permitted: the key's own entry, else deny
PrivatePermissions_is_permitted(perms, user, request) ==
    IF user \in DOMAIN perms.permissions
    THEN LET d == set_is_permitted(perms.permissions[user], request)
         IN  IF d # None THEN d.value ELSE FALSE
    ELSE FALSE

\* the lookup of the private tables used for every flavour
Permissions_is_permitted_private_lookup(kind, perms, user, request) ==
    PrivatePermissions_is_permitted(perms, user, request)

\* P::is_permitted for the P of the object's flavour
Permissions_is_permitted(kind, perms, user, request) ==
    IF is_public(kind)
    THEN PublicPermissions_is_permitted(perms, user, request)
    ELSE PrivatePermissions_is_permitted(perms, user, request)

\* is_permitted without the owner's unconditional grant
Sequence_is_permitted_no_owner_check(s, user, request) ==
    LET perms == permissions_at(s, FromEnd(1))
    IN  IF perms # None
        THEN Permissions_is_permitted(s.address.kind, perms.value, user, request)
        ELSE FALSE

\* is_permitted that denies everything while there is no owner
Sequence_is_permitted_owner_required(s, user, request) ==
    LET owner == owner_at(s, FromEnd(1))
        perms == permissions_at(s, FromEnd(1))
    IN  IF owner = None
        THEN FALSE
        ELSE IF owner.value.public_key = user
             THEN TRUE
             ELSE IF perms # None
                  THEN Permissions_is_permitted(s.address.kind, perms.value, user, request)
                  ELSE FALSE

\* is_permitted that allows everything while there is no snapshot
Sequence_is_permitted_default_allow(s, user, request) ==
    LET owner == owner_at(s, FromEnd(1))
        perms == permissions_at(s, FromEnd(1))
    IN  IF owner # None /\ owner.value.public_key = user
        THEN TRUE
        ELSE IF perms # None
             THEN Permissions_is_permitted(s.address.kind, perms.value, user, request)
             ELSE TRUE

\* is_permitted that accepts the key of any entry of the owners history
Sequence_is_permitted_any_owner(s, user, request) ==
    LET perms == permissions_at(s, FromEnd(1))
    IN  IF \E i \in 1..Len(s.owners) : s.owners[i].public_key = user
        THEN TRUE
        ELSE IF perms # None
             THEN Permissions_is_permitted(s.address.kind, perms.value, user, request)
             ELSE FALSE

\* is_permitted that consults the first snapshot instead of the latest
Sequence_is_permitted_first_snapshot(s, user, request) ==
    LET owner == owner_at(s, FromEnd(1))
        perms == permissions_at(s, FromStart(0))
    IN  IF owner # None /\ owner.value.public_key = user
        THEN TRUE
        ELSE IF perms # None
             THEN Permissions_is_permitted(s.address.kind, perms.value, user, request)
             ELSE FALSE

\* Sequence::is_permitted
Sequence_is_permitted(s, user, request) ==
    LET owner == owner_at(s, FromEnd(1))
        perms == permissions_at(s, FromEnd(1))
    IN  IF owner # None /\ owner.value.public_key = user
        THEN TRUE
        ELSE IF perms # None
             THEN Permissions_is_permitted(s.address.kind, perms.value, user, request)
             ELSE FALSE

\* Data::is_permitted with the query grant on one public flavour only
Data_is_permitted_sentried_only(s, request, user) ==
    IF s.address.kind = "PublicSentried" /\ request.type = "Query"
    THEN TRUE
    ELSE Sequence_is_permitted(s, user, request)

\* Data::is_permitted
Data_is_permitted(s, request, user) ==
    IF s.address.kind \in {"PublicSentried", "Public"} /\ request.type = "Query"
    THEN TRUE
    ELSE Sequence_is_permitted(s, user, request)

\* Sequence::is_owner
is_owner(s, user) ==
    LET owner == owner_at(s, FromEnd(1))
    IN  owner # None /\ user = owner.value.public_key

(***************************************************************************)
(* The state machine: the surrounding runtime calls one method at a time   *)
(* and takes its result before it issues the next call.                    *)
(***************************************************************************)
Idle == [op |-> "idle"]

Init ==
    \E kind \in Kinds, name \in Names, tag \in Tags :
        LET s == new(kind, name, tag)
        IN  /\ address = s.address
            /\ data = s.data
            /\ permissions = s.permissions
            /\ owners = s.owners
            /\ registered = <<>>
            /\ process = "sound"
            /\ call = [op |-> "new", kind |-> kind, name |-> name, tag |-> tag]
            /\ result = Returned(s)

\* the number of entries the object holds
Entries(s) == Len(s.data) + Len(s.owners) + Len(s.permissions)

\* the object after a call, kept within the explored size
Commit(s) ==
    /\ Entries(s) <= MaxEntries
    /\ address' = s.address
    /\ data' = s.data
    /\ permissions' = s.permissions
    /\ owners' = s.owners
    /\ UNCHANGED <<registered, process>>

SetOwner ==
    /\ call = Idle
    /\ \E pk \in Keys,
          t \in IndexTriples(Len(data), Len(permissions), Len(owners)) :
        LET owner == Owner(pk, t[1], t[2])
            r == set_owner(self, owner, t[3])
        IN  /\ Commit(r.self)
            /\ call' = [op |-> "set_owner", owner |-> owner, index |-> t[3]]
            /\ result' = r.result

SetPermissions ==
    /\ call = Idle
    /\ \E table \in Tables(address.kind),
          t \in IndexTriples(Len(data), Len(owners), Len(permissions)) :
        LET perms == Permissions(table, t[1], t[2])
            r == set_permissions(self, perms, t[3])
        IN  /\ Commit(r.self)
            /\ call' = [op |-> "set_permissions", permissions |-> perms, index |-> t[3]]
            /\ result' = r.result

AppendNonSentried ==
    /\ call = Idle
    /\ ~is_sentried(address.kind)
    /\ \E values \in ValueLists :
        LET r == append_NonSentried(self, values)
        IN  /\ Commit(r.self)
            /\ call' = [op |-> "append", values |-> values]
            /\ result' = r.result

AppendSentried ==
    /\ call = Idle
    /\ is_sentried(address.kind)
    /\ \E values \in ValueLists, expected_index \in Near(Len(data)) :
        LET r == append_Sentried(self, values, expected_index)
        IN  /\ Commit(r.self)
            /\ call' = [op |-> "append", values |-> values,
                        expected_index |-> expected_index]
            /\ result' = r.result

IsPermitted ==
    /\ call = Idle
    /\ \E user \in Keys, request \in Requests :
        /\ call' = [op |-> "is_permitted", user |-> user, request |-> request]
        /\ result' = Returned(Data_is_permitted(self, request, user))
        /\ UNCHANGED <<address, data, permissions, owners, registered, process>>

IsOwner ==
    /\ call = Idle
    /\ \E user \in Keys :
        /\ call' = [op |-> "is_owner", user |-> user]
        /\ result' = Returned(is_owner(self, user))
        /\ UNCHANGED <<address, data, permissions, owners, registered, process>>

\* the caller takes the result; the object is ready for the next call
Return ==
    /\ call # Idle
    /\ call' = Idle
    /\ result' = None
    /\ UNCHANGED <<address, data, permissions, owners, registered, process>>

Next ==
    \/ SetOwner
    \/ SetPermissions
    \/ AppendNonSentried
    \/ AppendSentried
    \/ IsPermitted
    \/ IsOwner
    \/ Return

Spec == Init /\ [][Next]_vars

(***************************************************************************)
(* The same object with its read accessors called between the mutations.   *)
(***************************************************************************)
\* the index arguments of a read of a collection of length n: from either
\* end, up to one position beyond the collection
Indices(n) == {FromStart(m) : m \in 0..(n + 1)} \cup {FromEnd(m) : m \in 0..(n + 1)}

Reads(c, r) ==
    /\ call = Idle
    /\ call' = c
    /\ result' = r
    /\ UNCHANGED <<address, data, permissions, owners, registered, process>>

\* shared_data::to_absolute_index against the length of the data log
ToAbsoluteIndex ==
    \E index \in Indices(Len(data)) :
        Reads([op |-> "to_absolute_index", index |-> index, count |-> Len(data)],
              Returned(to_absolute_index(index, Len(data))))

Get ==
    \E index \in 0..(Len(data) + 1) :
        Reads([op |-> "get", index |-> index], Returned(get(self, index)))

CurrentDataEntry ==
    Reads([op |-> "current_data_entry"], Returned(current_data_entry(self)))

InRange ==
    /\ Entries(self) <= MaxRangeEntries
    /\ \E start \in Indices(Len(data)), end \in Indices(Len(data)) :
        Reads([op |-> "in_range", start |-> start, end |-> end],
              Returned(in_range(self, start, end)))

OwnerHistoryRange ==
    /\ Entries(self) <= MaxRangeEntries
    /\ \E start \in Indices(Len(owners)), end \in Indices(Len(owners)) :
        Reads([op |-> "owner_history_range", start |-> start, end |-> end],
              Returned(owner_history_range(self, start, end)))

PermissionHistoryRange ==
    /\ Entries(self) <= MaxRangeEntries
    /\ \E start \in Indices(Len(permissions)), end \in Indices(Len(permissions)) :
        Reads([op |-> "permission_history_range", start |-> start, end |-> end],
              Returned(permission_history_range(self, start, end)))

OwnerAt ==
    \E index \in Indices(Len(owners)) :
        Reads([op |-> "owner_at", index |-> index], Returned(owner_at(self, index)))

PermissionsAt ==
    \E index \in Indices(Len(permissions)) :
        Reads([op |-> "permissions_at", index |-> index],
              Returned(permissions_at(self, index)))

Shell ==
    \E index \in Indices(Len(data)) :
        Reads([op |-> "shell", index |-> index], shell(self, index))

NextRead ==
    \/ SetOwner
    \/ SetPermissions
    \/ AppendNonSentried
    \/ AppendSentried
    \/ IsPermitted
    \/ IsOwner
    \/ ToAbsoluteIndex
    \/ Get
    \/ CurrentDataEntry
    \/ InRange
    \/ OwnerHistoryRange
    \/ PermissionHistoryRange
    \/ OwnerAt
    \/ PermissionsAt
    \/ Shell
    \/ Return

SpecRead == Init /\ [][NextRead]_vars

(***************************************************************************)
(* The permission accessors of the Data wrapper, called between the        *)
(* mutations of the object.                                                *)
(***************************************************************************)
NoSuchData == [tag |-> "Err", error |-> "NoSuchData"]

\* public_permissions_at that answers for every variant
Data_public_permissions_at_any_variant(s, index) ==
    LET perms == permissions_at(s, index)
    IN  IF perms = None THEN NoSuchEntry ELSE Returned(perms.value)

\* Data::public_permissions_at
Data_public_permissions_at(s, index) ==
    IF ~is_public(s.address.kind) THEN NoSuchData
    ELSE LET perms == permissions_at(s, index)
         IN  IF perms = None THEN NoSuchEntry ELSE Returned(perms.value)

\* Data::private_permissions_at
Data_private_permissions_at(s, index) ==
    IF is_public(s.address.kind) THEN NoSuchData
    ELSE LET perms == permissions_at(s, index)
         IN  IF perms = None THEN NoSuchEntry ELSE Returned(perms.value)

\* BTreeMap::get(&user).cloned().ok_or(Error::NoSuchEntry) on the snapshot
user_permissions(snapshot, user) ==
    IF snapshot.tag = "Err" THEN snapshot
    ELSE IF user \in DOMAIN snapshot.value.permissions
    THEN Returned(snapshot.value.permissions[user])
    ELSE NoSuchEntry

\* Data::public_user_permissions_at
Data_public_user_permissions_at(s, user, index) ==
    user_permissions(Data_public_permissions_at(s, index), user)

\* Data::private_user_permissions_at
Data_private_user_permissions_at(s, user, index) ==
    user_permissions(Data_private_permissions_at(s, index), user)

PublicPermissionsAt ==
    \E index \in Indices(Len(permissions)) :
        Reads([op |-> "public_permissions_at", index |-> index],
              Data_public_permissions_at(self, index))

PrivatePermissionsAt ==
    \E index \in Indices(Len(permissions)) :
        Reads([op |-> "private_permissions_at", index |-> index],
              Data_private_permissions_at(self, index))

PublicUserPermissionsAt ==
    \E user \in Keys \cup {Anyone}, index \in Indices(Len(permissions)) :
        Reads([op |-> "public_user_permissions_at", user |-> user, index |-> index],
              Data_public_user_permissions_at(self, user, index))

PrivateUserPermissionsAt ==
    \E user \in Keys, index \in Indices(Len(permissions)) :
        Reads([op |-> "private_user_permissions_at", user |-> user, index |-> index],
              Data_private_user_permissions_at(self, user, index))

NextAccess ==
    \/ SetOwner
    \/ SetPermissions
    \/ AppendNonSentried
    \/ AppendSentried
    \/ PublicPermissionsAt
    \/ PrivatePermissionsAt
    \/ PublicUserPermissionsAt
    \/ PrivateUserPermissionsAt
    \/ Return

SpecAccess == Init /\ [][NextAccess]_vars

(***************************************************************************)
(* Keys, keypairs and signatures (keys/mod.rs).  A secret is named by a    *)
(* number; the native public key of a secret and the native signature of   *)
(* a secret over a message are the symbolic values the scheme's library    *)
(* derives from them.                                                      *)
(***************************************************************************)
Schemes == {"Ed25519", "Bls", "BlsShare"}

\* the secrets the random generator hands out
Secrets == {1, 2}

\* the positions of a share in its key set
ShareIndices == {0, 1}

Messages == {"m1", "m2"}

\* the public half the scheme's library derives from a secret
public_of(secret) == [public_of |-> secret]

\* the native signature of a secret over a message
native_sign(secret, msg) == [signer |-> secret, over |-> msg]

\* the native verification of the scheme's library
native_verify(pub_key, sig, msg) ==
    sig.signer = pub_key.public_of /\ sig.over = msg

\* enum Keypair; the share keypair also holds its index
Keypair(scheme, secret, index) ==
    IF scheme = "BlsShare"
    THEN [scheme |-> scheme, index |-> index, secret |-> secret,
          public |-> public_of(secret)]
    ELSE [scheme |-> scheme, secret |-> secret, public |-> public_of(secret)]

\* Keypair::new_ed25519
new_ed25519(secret) == Keypair("Ed25519", secret, 0)

\* Keypair::new_bls
new_bls(secret) == Keypair("Bls", secret, 0)

\* Keypair::new_bls_share
new_bls_share(index, secret_share) == Keypair("BlsShare", secret_share, index)

Keypairs ==
    {new_ed25519(secret) : secret \in Secrets}
        \cup {new_bls(secret) : secret \in Secrets}
        \cup {new_bls_share(index, secret) : index \in ShareIndices, secret \in Secrets}

\* enum PublicKey
PublicKey(scheme, key) == [scheme |-> scheme, key |-> key]

\* Keypair::public_key
public_key(keypair) == PublicKey(keypair.scheme, keypair.public)

PublicKeys == {public_key(keypair) : keypair \in Keypairs}

\* struct SignatureShare
SignatureShare(index, share) == [index |-> index, share |-> share]

\* enum Signature
Signature(scheme, sig) == [scheme |-> scheme, sig |-> sig]

\* From<SignatureShare> for Signature
Signature_from_share(sig) == Signature("BlsShare", sig)

\* From<(usize, threshold_crypto::SignatureShare)> for Signature
Signature_from_pair(index, share) == Signature("BlsShare", SignatureShare(index, share))

\* sign that stamps every share with the first index
sign_first_index(keypair, msg) ==
    IF keypair.scheme = "BlsShare"
    THEN Signature("BlsShare", SignatureShare(0, native_sign(keypair.secret, msg)))
    ELSE Signature(keypair.scheme, native_sign(keypair.secret, msg))

\* Keypair::sign
sign(keypair, msg) ==
    IF keypair.scheme = "BlsShare"
    THEN Signature("BlsShare",
                   SignatureShare(keypair.index, native_sign(keypair.secret, msg)))
    ELSE Signature(keypair.scheme, native_sign(keypair.secret, msg))

Signatures == {sign(keypair, msg) : keypair \in Keypairs, msg \in Messages}

SigningKeyTypeMismatch == [tag |-> "Err", error |-> "SigningKeyTypeMismatch"]

InvalidSignature == [tag |-> "Err", error |-> "InvalidSignature"]

\* verify that checks the share of a BlsShare signature against a Bls key
verify_share_under_bls_key(key, signature, msg) ==
    LET is_valid ==
            IF key.scheme = "BlsShare" \/ (key.scheme = "Bls" /\ signature.scheme = "BlsShare")
            THEN native_verify(key.key, signature.sig.share, msg)
            ELSE native_verify(key.key, signature.sig, msg)
    IN  IF key.scheme # signature.scheme
           /\ ~(key.scheme = "Bls" /\ signature.scheme = "BlsShare")
        THEN SigningKeyTypeMismatch
        ELSE IF is_valid THEN Ok ELSE InvalidSignature

\* verify that accepts every signature of the key's own scheme
verify_accept_same_scheme(key, signature, msg) ==
    IF key.scheme # signature.scheme THEN SigningKeyTypeMismatch ELSE Ok

\* verify that accepts a share signature only under the first index
verify_first_share_only(key, signature, msg) ==
    LET is_valid ==
            IF key.scheme = "BlsShare"
            THEN /\ signature.sig.index = 0
                 /\ native_verify(key.key, signature.sig.share, msg)
            ELSE native_verify(key.key, signature.sig, msg)
    IN  IF key.scheme # signature.scheme
        THEN SigningKeyTypeMismatch
        ELSE IF is_valid THEN Ok ELSE InvalidSignature

\* PublicKey::verify
verify(key, signature, msg) ==
    LET is_valid ==
            IF key.scheme = "BlsShare"
            THEN native_verify(key.key, signature.sig.share, msg)
            ELSE native_verify(key.key, signature.sig, msg)
    IN  IF key.scheme # signature.scheme
        THEN SigningKeyTypeMismatch
        ELSE IF is_valid THEN Ok ELSE InvalidSignature

Sign ==
    /\ call = Idle
    /\ \E keypair \in Keypairs, msg \in Messages :
        /\ call' = [op |-> "sign", keypair |-> keypair, data |-> msg]
        /\ result' = Returned(sign(keypair, msg))
    /\ UNCHANGED <<address, data, permissions, owners, registered, process>>

Verify ==
    /\ call = Idle
    /\ \E key \in PublicKeys, signature \in Signatures, message \in Messages :
        /\ call' = [op |-> "verify", key |-> key, signature |-> signature,
                    data |-> message]
        /\ result' = verify(key, signature, message)
    /\ UNCHANGED <<address, data, permissions, owners, registered, process>>

(***************************************************************************)
(* The canonical byte encoding (utils::serialise) and what is derived from *)
(* it.  A fixed-width number is its little-endian bytes; the bytes of a    *)
(* native key or signature are the symbolic bytes of its parts.            *)
(***************************************************************************)
\* a number as width little-endian bytes
RECURSIVE le_bytes(_, _)
le_bytes(n, width) ==
    IF width = 0 THEN <<>> ELSE <<n % 256>> \o le_bytes(n \div 256, width - 1)

\* the position of a scheme in the enums PublicKey, Signature and Keypair
variant_index(scheme) ==
    IF scheme = "Ed25519" THEN 0 ELSE IF scheme = "Bls" THEN 1 ELSE 2

\* the byte that stands for a message in the bytes of a signature over it
message_byte(msg) == IF msg = "m1" THEN 1 ELSE 2

\* the bytes of a native public key: an Ed25519 key is as long as a XOR name,
\* a Bls key or key share is longer
public_to_bytes(scheme, pub_key) ==
    IF scheme = "Ed25519" THEN <<pub_key.public_of>>
    ELSE <<pub_key.public_of, 255 - pub_key.public_of>>

\* the bytes of a native signature
signature_to_bytes(sig) == <<sig.signer, message_byte(sig.over)>>

\* utils::serialise of a PublicKey: the variant as a u32, then the key
serialise_PublicKey(key) ==
    le_bytes(variant_index(key.scheme), 4) \o public_to_bytes(key.scheme, key.key)

\* utils::serialise of a Signature: the variant as a u32, then the signature;
\* a share is preceded by its index as a u64
serialise_Signature(signature) ==
    le_bytes(variant_index(signature.scheme), 4)
        \o (IF signature.scheme = "BlsShare"
            THEN le_bytes(signature.sig.index, 8) \o signature_to_bytes(signature.sig.share)
            ELSE signature_to_bytes(signature.sig))

\* Ord for Vec<u8>: the first differing byte decides, then the length
cmp_bytes(a, b) ==
    LET differ == {i \in 1..Len(a) : i <= Len(b) /\ a[i] # b[i]}
    IN  IF differ # {}
        THEN LET i == CHOOSE j \in differ : \A k \in differ : j <= k
             IN  IF a[i] < b[i] THEN "Less" ELSE "Greater"
        ELSE IF Len(a) < Len(b) THEN "Less"
        ELSE IF Len(a) = Len(b) THEN "Equal"
        ELSE "Greater"

\* an order of public keys that compares the key bytes only
PublicKey_cmp_key_bytes_only(a, b) ==
    cmp_bytes(public_to_bytes(a.scheme, a.key), public_to_bytes(b.scheme, b.key))

\* Ord for PublicKey
PublicKey_cmp(a, b) == cmp_bytes(serialise_PublicKey(a), serialise_PublicKey(b))

\* Ord for Signature
Signature_cmp(a, b) == cmp_bytes(serialise_Signature(a), serialise_Signature(b))

\* what Hash for Vec<u8> feeds the hasher: the length, then the bytes
hash_bytes(bytes) == <<Len(bytes)>> \o bytes

\* Hash for PublicKey
PublicKey_hash(key) == hash_bytes(serialise_PublicKey(key))

\* Hash for Signature
Signature_hash(signature) == hash_bytes(serialise_Signature(signature))

CmpPublicKey ==
    /\ call = Idle
    /\ \E a \in PublicKeys, b \in PublicKeys :
        /\ call' = [op |-> "cmp_public_key", a |-> a, b |-> b]
        /\ result' = Returned([cmp |-> PublicKey_cmp(a, b),
                               hash_a |-> PublicKey_hash(a),
                               hash_b |-> PublicKey_hash(b)])
    /\ UNCHANGED <<address, data, permissions, owners, registered, process>>

CmpSignature ==
    /\ call = Idle
    /\ \E a \in Signatures, b \in Signatures :
        /\ call' = [op |-> "cmp_signature", a |-> a, b |-> b]
        /\ result' = Returned([cmp |-> Signature_cmp(a, b),
                               hash_a |-> Signature_hash(a),
                               hash_b |-> Signature_hash(b)])
    /\ UNCHANGED <<address, data, permissions, owners, registered, process>>

\* the native shares a conversion is given
Shares == {native_sign(secret, msg) : secret \in Secrets, msg \in Messages}

FromSignatureShare ==
    /\ call = Idle
    /\ \E index \in ShareIndices, share \in Shares :
        /\ call' = [op |-> "from_share", sig |-> SignatureShare(index, share)]
        /\ result' = Returned(Signature_from_share(SignatureShare(index, share)))
    /\ UNCHANGED <<address, data, permissions, owners, registered, process>>

FromIndexAndShare ==
    /\ call = Idle
    /\ \E index \in ShareIndices, share \in Shares :
        /\ call' = [op |-> "from_pair", index |-> index, share |-> share]
        /\ result' = Returned(Signature_from_pair(index, share))
    /\ UNCHANGED <<address, data, permissions, owners, registered, process>>

NextKeys ==
    \/ Sign
    \/ Verify
    \/ FromSignatureShare
    \/ FromIndexAndShare
    \/ CmpPublicKey
    \/ CmpSignature
    \/ Return

SpecKeys == Init /\ [][NextKeys]_vars

(***************************************************************************)
(* The z-base-32 text form (utils::encode, utils::decode) of public keys,  *)
(* XOR names and sequence addresses: the canonical bytes, in groups of     *)
(* five bits, each written as one character, after the character that      *)
(* names the base.                                                         *)
(***************************************************************************)
Alphabet ==
    <<"y", "b", "n", "d", "r", "f", "g", "8", "e", "j", "k", "m", "c", "p", "q", "x",
      "o", "t", "1", "u", "w", "i", "s", "z", "a", "3", "4", "5", "h", "7", "6", "9">>

\* the character multibase puts in front of a z-base-32 text
BaseCode == "h"

FailedToParse == [tag |-> "Err", error |-> "FailedToParse"]

\* the width least significant bits of a number, most significant first
RECURSIVE number_bits(_, _)
number_bits(n, width) ==
    IF width = 0 THEN <<>> ELSE number_bits(n \div 2, width - 1) \o <<n % 2>>

\* the number a sequence of bits writes, most significant first
RECURSIVE bits_number(_)
bits_number(bits) ==
    IF bits = <<>> THEN 0
    ELSE 2 * bits_number(SubSeq(bits, 1, Len(bits) - 1)) + bits[Len(bits)]

RECURSIVE bytes_bits(_)
bytes_bits(bytes) ==
    IF bytes = <<>> THEN <<>>
    ELSE number_bits(Head(bytes), 8) \o bytes_bits(Tail(bytes))

\* the characters of the groups of five bits; the last group is filled
\* with zero bits
RECURSIVE bits_text(_)
bits_text(bits) ==
    IF bits = <<>> THEN <<>>
    ELSE IF Len(bits) < 5
    THEN <<Alphabet[bits_number(bits \o SubSeq(<<0, 0, 0, 0>>, 1, 5 - Len(bits))) + 1]>>
    ELSE <<Alphabet[bits_number(SubSeq(bits, 1, 5)) + 1]>>
            \o bits_text(SubSeq(bits, 6, Len(bits)))

\* the bits of the characters of a text
RECURSIVE text_bits(_)
text_bits(text) ==
    IF text = <<>> THEN <<>>
    ELSE LET v == CHOOSE i \in 1..Len(Alphabet) : Alphabet[i] = Head(text)
         IN  number_bits(v - 1, 5) \o text_bits(Tail(text))

\* the whole bytes a sequence of bits holds
RECURSIVE bits_bytes(_)
bits_bytes(bits) ==
    IF Len(bits) < 8 THEN <<>>
    ELSE <<bits_number(SubSeq(bits, 1, 8))>> \o bits_bytes(SubSeq(bits, 9, Len(bits)))

\* a text form that leaves out the last, partly filled group
encode_whole_groups_only(bytes) ==
    LET bits == bytes_bits(bytes)
    IN  <<BaseCode>> \o bits_text(SubSeq(bits, 1, 5 * (Len(bits) \div 5)))

\* utils::encode of the serialised bytes
encode(bytes) == <<BaseCode>> \o bits_text(bytes_bits(bytes))

\* the bytes of a text, None for a text that is not z-base-32
decode(text) ==
    IF text = <<>> \/ Head(text) # BaseCode
       \/ \E i \in 2..Len(text) : \A j \in 1..Len(Alphabet) : Alphabet[j] # text[i]
    THEN None
    ELSE Some(bits_bytes(text_bits(Tail(text))))

\* the number little-endian bytes write
RECURSIVE le_number(_)
le_number(bytes) ==
    IF bytes = <<>> THEN 0 ELSE Head(bytes) + 256 * le_number(Tail(bytes))

\* the scheme at a position of the enum PublicKey
SchemeAt(v) == CHOOSE scheme \in Schemes : variant_index(scheme) = v

\* bincode::deserialize of a PublicKey
deserialise_PublicKey(bytes) ==
    IF Len(bytes) < 5 \/ le_number(SubSeq(bytes, 1, 4)) > 2 THEN FailedToParse
    ELSE LET key == PublicKey(SchemeAt(le_number(SubSeq(bytes, 1, 4))),
                              [public_of |-> bytes[5]])
         IN  IF serialise_PublicKey(key) = bytes THEN Returned(key) ELSE FailedToParse

\* PublicKey::encode_to_zbase32
PublicKey_encode_to_zbase32(key) == encode(serialise_PublicKey(key))

\* PublicKey::decode_from_zbase32
PublicKey_decode_from_zbase32(encoded) ==
    LET bytes == decode(encoded)
    IN  IF bytes = None THEN FailedToParse ELSE deserialise_PublicKey(bytes.value)

\* the XOR names that are put into text
XorNames == {0, 1, 255}

\* utils::serialise of a XorName: its bytes
serialise_XorName(name) == <<name>>

\* bincode::deserialize of a XorName
deserialise_XorName(bytes) ==
    IF Len(bytes) # 1 THEN FailedToParse ELSE Returned(bytes[1])

\* XorName::encode_to_zbase32 that leaves out the last group
XorName_encode_to_zbase32_short(name) == encode_whole_groups_only(serialise_XorName(name))

\* XorName::encode_to_zbase32
XorName_encode_to_zbase32(name) == encode(serialise_XorName(name))

\* XorName::decode_from_zbase32
XorName_decode_from_zbase32(encoded) ==
    LET bytes == decode(encoded)
    IN  IF bytes = None THEN FailedToParse ELSE deserialise_XorName(bytes.value)

\* the tags of the addresses that are put into text
TextTags == {0, 10000, 15000}

\* the variants of the enum Address, in their order
AddressKinds == <<"PublicSentried", "Public", "PrivateSentried", "Private">>

Addresses ==
    {[kind |-> kind, name |-> name, tag |-> tag] :
        kind \in Kinds, name \in XorNames, tag \in TextTags}

\* utils::serialise of an Address: the variant as a u32, the name, the tag
\* as a u64
serialise_Address(a) ==
    le_bytes((CHOOSE i \in 1..Len(AddressKinds) : AddressKinds[i] = a.kind) - 1, 4)
        \o serialise_XorName(a.name) \o le_bytes(a.tag, 8)

\* bincode::deserialize of an Address
deserialise_Address(bytes) ==
    IF Len(bytes) # 13 \/ le_number(SubSeq(bytes, 1, 4)) > 3 THEN FailedToParse
    ELSE Returned([kind |-> AddressKinds[le_number(SubSeq(bytes, 1, 4)) + 1],
                   name |-> bytes[5],
                   tag |-> le_number(SubSeq(bytes, 6, 13))])

\* Address::encode_to_zbase32
Address_encode_to_zbase32(a) == encode(serialise_Address(a))

\* Address::decode_from_zbase32
Address_decode_from_zbase32(encoded) ==
    LET bytes == decode(encoded)
    IN  IF bytes = None THEN FailedToParse ELSE deserialise_Address(bytes.value)

EncodePublicKey ==
    /\ call = Idle
    /\ \E key \in PublicKeys :
        /\ call' = [op |-> "encode_public_key", of |-> key]
        /\ result' = Returned(PublicKey_encode_to_zbase32(key))
    /\ UNCHANGED <<address, data, permissions, owners, registered, process>>

EncodeXorName ==
    /\ call = Idle
    /\ \E name \in XorNames :
        /\ call' = [op |-> "encode_xorname", of |-> name]
        /\ result' = Returned(XorName_encode_to_zbase32(name))
    /\ UNCHANGED <<address, data, permissions, owners, registered, process>>

EncodeAddress ==
    /\ call = Idle
    /\ \E a \in Addresses :
        /\ call' = [op |-> "encode_address", of |-> a]
        /\ result' = Returned(Address_encode_to_zbase32(a))
    /\ UNCHANGED <<address, data, permissions, owners, registered, process>>

\* the text an encode call returned is decoded as the type it was made of
DecodePublicKey ==
    /\ call.op = "encode_public_key"
    /\ call' = [op |-> "decode_public_key", of |-> call.of, encoded |-> result.value]
    /\ result' = PublicKey_decode_from_zbase32(result.value)
    /\ UNCHANGED <<address, data, permissions, owners, registered, process>>

DecodeXorName ==
    /\ call.op = "encode_xorname"
    /\ call' = [op |-> "decode_xorname", of |-> call.of, encoded |-> result.value]
    /\ result' = XorName_decode_from_zbase32(result.value)
    /\ UNCHANGED <<address, data, permissions, owners, registered, process>>

DecodeAddress ==
    /\ call.op = "encode_address"
    /\ call' = [op |-> "decode_address", of |-> call.of, encoded |-> result.value]
    /\ result' = Address_decode_from_zbase32(result.value)
    /\ UNCHANGED <<address, data, permissions, owners, registered, process>>

NextText ==
    \/ EncodePublicKey
    \/ EncodeXorName
    \/ EncodeAddress
    \/ DecodePublicKey
    \/ DecodeXorName
    \/ DecodeAddress
    \/ Return

SpecText == Init /\ [][NextText]_vars

(***************************************************************************)
(* Money requests (request/money.rs) and the transfers they carry          *)
(* (transfer.rs).                                                          *)
(***************************************************************************)
\* lib.rs XOR_NAME_LEN, with one byte standing for the 32 of a name
XOR_NAME_LEN == 1

\* XorName(bytes): the number its bytes write
XorName(bytes) == bits_number(bytes_bits(bytes))

\* a copy that stops one byte short and leaves the last byte of dst
clone_from_slice_short(dst, src) ==
    [i \in 1..Len(dst) |-> IF i < Len(dst) THEN src[i] ELSE dst[i]]

\* <[u8]>::clone_from_slice: every byte of dst is replaced by the byte of src
clone_from_slice(dst, src) == [i \in 1..Len(dst) |-> src[i]]

\* From<PublicKey> for XorName; random is what XorName::random() returns
XorName_from(key, random) ==
    LET bytes == public_to_bytes(key.scheme, key.key)
    IN  IF key.scheme = "Ed25519" THEN XorName(bytes)
        ELSE XorName(clone_from_slice(serialise_XorName(random),
                                      SubSeq(bytes, 1, XOR_NAME_LEN)))

\* crdts::Dot: TransferId
Dot(actor, counter) == [actor |-> actor, counter |-> counter]

\* struct Transfer
Transfer(id, to, amount, restrictions) ==
    [id |-> id, to |-> to, amount |-> amount, restrictions |-> restrictions]

\* enum TransferRestrictions
TransferRestrictions == {"RequireHistory", "ExpectNoHistory", "NoRestriction"}

\* the keys that hold money: one of each scheme
MoneyKeys ==
    {public_key(new_ed25519(1)), public_key(new_bls(2)), public_key(new_bls_share(0, 1))}

Counters == {0, 1}

Amounts == {1}

Transfers ==
    {Transfer(Dot(actor, counter), to, amount, restrictions) :
        actor \in MoneyKeys, counter \in Counters, to \in MoneyKeys,
        amount \in Amounts, restrictions \in TransferRestrictions}

\* SignedTransfer: the transfer and the signature of its actor
SignedTransfer(transfer) == [transfer |-> transfer, actor_signature |-> "actor"]

\* DebitAgreementProof: the signed transfer and the signature of the section
DebitAgreementProof(transfer) ==
    [signed_transfer |-> SignedTransfer(transfer), debiting_replicas_sig |-> "section"]

\* enum MoneyRequest
MoneyRequests ==
    {[type |-> "ValidateTransfer", signed_transfer |-> SignedTransfer(transfer)] :
        transfer \in Transfers}
    \cup {[type |-> type, proof |-> DebitAgreementProof(transfer)] :
        type \in {"RegisterTransfer", "PropagateTransfer"}, transfer \in Transfers}
    \cup {[type |-> "GetBalance", at |-> key] : key \in MoneyKeys}
    \cup {[type |-> "GetHistory", at |-> key, since_version |-> version] :
        key \in MoneyKeys, version \in Counters}

\* authorisation_kind that asks the client's authorisation for a registration
authorisation_kind_register_as_validate(request) ==
    IF request.type = "PropagateTransfer" THEN <<"None">>
    ELSE IF request.type \in {"RegisterTransfer", "ValidateTransfer"}
    THEN <<"Misc", "MutAndTransferMoney">>
    ELSE IF request.type = "GetBalance" THEN <<"Money", "GetBalance">>
    ELSE <<"Money", "GetHistory">>

\* MoneyRequest::authorisation_kind
authorisation_kind(request) ==
    IF request.type = "PropagateTransfer" THEN <<"None">>
    ELSE IF request.type = "RegisterTransfer" THEN <<"None">>
    ELSE IF request.type = "ValidateTransfer" THEN <<"Misc", "MutAndTransferMoney">>
    ELSE IF request.type = "GetBalance" THEN <<"Money", "GetBalance">>
    ELSE <<"Money", "GetHistory">>

\* dest_address that sends a registration where the credit is made
dest_address_register_to_credit(request, random) ==
    IF request.type \in {"PropagateTransfer", "RegisterTransfer"}
    THEN Some(XorName_from(request.proof.signed_transfer.transfer.to, random))
    ELSE IF request.type = "ValidateTransfer"
    THEN Some(XorName_from(request.signed_transfer.transfer.id.actor, random))
    ELSE None

\* MoneyRequest::dest_address; random is what XorName::random() returns
dest_address(request, random) ==
    IF request.type = "PropagateTransfer"
    THEN Some(XorName_from(request.proof.signed_transfer.transfer.to, random))
    ELSE IF request.type = "RegisterTransfer"
    THEN Some(XorName_from(request.proof.signed_transfer.transfer.id.actor, random))
    ELSE IF request.type = "ValidateTransfer"
    THEN Some(XorName_from(request.signed_transfer.transfer.id.actor, random))
    ELSE None

AuthorisationKind ==
    /\ call = Idle
    /\ \E request \in MoneyRequests :
        /\ call' = [op |-> "authorisation_kind", request |-> request]
        /\ result' = Returned(authorisation_kind(request))
    /\ UNCHANGED <<address, data, permissions, owners, registered, process>>

DestAddress ==
    /\ call = Idle
    /\ \E request \in MoneyRequests, random \in XorNames :
        /\ call' = [op |-> "dest_address", request |-> request, random |-> random]
        /\ result' = Returned(dest_address(request, random))
    /\ UNCHANGED <<address, data, permissions, owners, registered, process>>

NextMoney ==
    \/ AuthorisationKind
    \/ DestAddress
    \/ Return

SpecMoney == Init /\ [][NextMoney]_vars

(***************************************************************************)
(* The section that handles the transfers of its actors: it validates a    *)
(* signed transfer, and registers an agreed one in its history.            *)
(***************************************************************************)
MaxRegistered == 2

AlreadyRegistered == [tag |-> "Err", error |-> "AlreadyRegistered"]

HistoryRequired == [tag |-> "Err", error |-> "HistoryRequired"]

HistoryNotExpected == [tag |-> "Err", error |-> "HistoryNotExpected"]

\* the TransferId has been registered
is_registered(history, id) == \E i \in 1..Len(history) : history[i].id = id

\* the actor has a registered transfer
has_history(history, actor) == \E i \in 1..Len(history) : history[i].id.actor = actor

\* validation that does not look at the restriction of the transfer
validate_transfer_unrestricted(history, signed_transfer) ==
    IF is_registered(history, signed_transfer.transfer.id) THEN AlreadyRegistered ELSE Ok

\* the section validates a ValidateTransfer
validate_transfer(history, signed_transfer) ==
    LET transfer == signed_transfer.transfer
    IN  IF is_registered(history, transfer.id) THEN AlreadyRegistered
        ELSE IF transfer.restrictions = "RequireHistory"
                /\ ~has_history(history, transfer.id.actor)
        THEN HistoryRequired
        ELSE IF transfer.restrictions = "ExpectNoHistory"
                /\ has_history(history, transfer.id.actor)
        THEN HistoryNotExpected
        ELSE Ok

\* registration that looks for the whole transfer, not for its TransferId
register_transfer_whole_transfer(history, proof) ==
    LET transfer == proof.signed_transfer.transfer
    IN  IF \E i \in 1..Len(history) : history[i] = transfer
        THEN Outcome(AlreadyRegistered, history)
        ELSE Outcome(Ok, Append(history, transfer))

\* the section registers the transfer of a RegisterTransfer
register_transfer(history, proof) ==
    LET transfer == proof.signed_transfer.transfer
    IN  IF is_registered(history, transfer.id)
        THEN Outcome(AlreadyRegistered, history)
        ELSE Outcome(Ok, Append(history, transfer))

\* the actors and destinations of the transfers a section is sent
SectionKeys == {public_key(new_ed25519(1)), public_key(new_bls(2))}

SectionTransfers ==
    {transfer \in Transfers :
        transfer.id.actor \in SectionKeys /\ transfer.to \in SectionKeys}

HandleValidateTransfer ==
    /\ call = Idle
    /\ \E transfer \in SectionTransfers :
        /\ call' = [op |-> "validate_transfer", transfer |-> transfer]
        /\ result' = validate_transfer(registered, SignedTransfer(transfer))
    /\ UNCHANGED <<address, data, permissions, owners, registered, process>>

HandleRegisterTransfer ==
    /\ call = Idle
    /\ \E transfer \in SectionTransfers :
        LET r == register_transfer(registered, DebitAgreementProof(transfer))
        IN  /\ Len(r.self) <= MaxRegistered
            /\ registered' = r.self
            /\ call' = [op |-> "register_transfer", transfer |-> transfer]
            /\ result' = r.result
    /\ UNCHANGED <<address, data, permissions, owners, process>>

NextSection ==
    \/ HandleValidateTransfer
    \/ HandleRegisterTransfer
    \/ Return

SpecSection == Init /\ [][NextSection]_vars

(***************************************************************************)
(* set_owner without an outer lock: two callers run the method on the same *)
(* object at once.  A caller makes the three comparisons; a refused one    *)
(* reads the length again for the error it returns; an accepted one calls  *)
(* Vec::push.  The check and the push are separate steps, and the steps of *)
(* the two callers interleave.  A push that runs while the other caller is *)
(* inside its own push is a data race on the vector's length, pointer,     *)
(* capacity and buffer: undefined behaviour, modelled as a choice over the *)
(* vectors the builds leave, or the death of the process.  call holds the  *)
(* two calls in flight, the owners history they found and whether a push   *)
(* has raced; result holds what each caller has returned; process tells    *)
(* whether a race has damaged the allocator's records, and whether the     *)
(* process has died of it.                                                 *)
(***************************************************************************)
Callers == {1, 2}

\* an index field of bytes that are no entry's: it stands for any u64
AnyIndex == 0 - 1

\* an entry read from memory that holds none of the entries in play (a mix
\* of two writes, the allocator's bookkeeping in a freed buffer, what a new
\* buffer held before): each of its fields may have any value
Arbitrary ==
    [public_key |-> "any", expected_data_index |-> AnyIndex,
     expected_permissions_index |-> AnyIndex]

\* the process has died in the allocator
Aborted == [tag |-> "Aborted"]

\* the comparisons of a set_owner that lets any permissions index through
set_owner_checks_skip_permissions(s, owner, index) ==
    IF owner.expected_data_index # expected_data_index(s) THEN Some("data")
    ELSE IF expected_owners_index(s) # index THEN Some("owners")
    ELSE None

\* the three comparisons of Sequence::set_owner: the first that fails, if any
set_owner_checks(s, owner, index) ==
    IF owner.expected_data_index # expected_data_index(s) THEN Some("data")
    ELSE IF owner.expected_permissions_index # expected_permissions_index(s)
    THEN Some("permissions")
    ELSE IF expected_owners_index(s) # index THEN Some("owners")
    ELSE None

\* the error of a failed comparison: it reads the length again
set_owner_error(s, failed) ==
    IF failed = "data" THEN Err("InvalidSuccessor", expected_data_index(s))
    ELSE IF failed = "permissions"
    THEN Err("InvalidPermissionsSuccessor", expected_permissions_index(s))
    ELSE Err("InvalidSuccessor", expected_owners_index(s))

\* self.owners.push(owner), run as one step
set_owner_push(s, owner) == [s EXCEPT !.owners = Append(@, owner)]

\* the owners vectors of length len a racing push can leave: each slot
\* holds an entry the history had before the race, the entry of either
\* caller, or arbitrary bytes
raced_owners(before, entries, len) ==
    [1..len -> {before[i] : i \in 1..Len(before)} \cup entries \cup {Arbitrary}]

\* Sequence::indices: the three expected indices, as a caller's checks read
\* them
indices(s) ==
    [data |-> Len(s.data), permissions |-> Len(s.permissions), owners |-> Len(s.owners)]

\* two callers enter set_owner: the first with an entry and an index
\* prepared from the current lengths or from lengths one push off, the
\* second with an entry prepared from the same lengths as the first or from
\* the current ones; the object has room for both entries
EnterSetOwner ==
    /\ call = Idle
    /\ Entries(self) + Cardinality(Callers) <= MaxEntries
    /\ \E pk1, pk2 \in Keys,
          t1 \in IndexTriples(Len(data), Len(permissions), Len(owners)) :
      \E t2 \in {t1, <<Len(data), Len(permissions), Len(owners)>>} :
        /\ call' = [op |-> "set_owner (two callers)",
                    owner |-> <<Owner(pk1, t1[1], t1[2]), Owner(pk2, t2[1], t2[2])>>,
                    index |-> <<t1[3], t2[3]>>,
                    at |-> <<"checks", "checks">>,
                    read |-> <<None, None>>,
                    failed |-> <<None, None>>,
                    before |-> owners,
                    raced |-> FALSE]
        /\ result' = <<None, None>>
        /\ UNCHANGED <<address, data, permissions, owners, registered, process>>

\* one caller makes the three comparisons: it goes on to build the error of
\* the first that fails, or to the push
CheckSetOwner ==
    /\ call.op = "set_owner (two callers)"
    /\ \E c \in Callers :
        /\ call.at[c] = "checks"
        /\ LET failed == set_owner_checks(self, call.owner[c], call.index[c])
           IN  call' = [call EXCEPT !.at[c] = IF failed = None THEN "push" ELSE "error",
                                    !.failed[c] = failed,
                                    !.read[c] = Some(indices(self))]
        /\ UNCHANGED <<address, data, permissions, owners, registered, process, result>>

\* a refused caller reads the length for its error, and returns it
FailSetOwner ==
    /\ call.op = "set_owner (two callers)"
    /\ \E c \in Callers :
        /\ call.at[c] = "error"
        /\ call' = [call EXCEPT !.at[c] = "returned"]
        /\ result' = [result EXCEPT ![c] = set_owner_error(self, call.failed[c].value)]
        /\ UNCHANGED <<address, data, permissions, owners, registered, process>>

\* the push of the caller c overlaps a push of the other caller: that one
\* is inside its push, or has completed it since c entered its own
Overlaps(c) ==
    \/ call.raced
    \/ \E d \in Callers \ {c} : call.at[d] = "pushing"

\* an accepted caller enters Vec::push while the other caller is in flight,
\* and is held inside it
EnterPush ==
    /\ call.op = "set_owner (two callers)"
    /\ \E c \in Callers :
        /\ call.at[c] = "push"
        /\ \E d \in Callers \ {c} : call.at[d] \in {"checks", "push", "pushing"}
        /\ call' = [call EXCEPT !.at[c] = "pushing"]
        /\ UNCHANGED <<address, data, permissions, owners, registered, process, result>>

\* the push of an accepted caller that no push of the other caller
\* overlaps: the entry is appended, the caller returns Ok
PushSetOwner ==
    /\ call.op = "set_owner (two callers)"
    /\ \E c \in Callers :
        /\ call.at[c] \in {"push", "pushing"}
        /\ ~Overlaps(c)
        /\ Commit(set_owner_push(self, call.owner[c]))
        /\ call' = [call EXCEPT !.at[c] = "returned"]
        /\ result' = [result EXCEPT ![c] = Ok]

\* the push of an accepted caller that a push of the other caller
\* overlaps.  It stores the length it read plus one, and it read the length
\* the callers found or, when the other push has stored its own, one more;
\* the buffer it leaves is the one it or the other push wrote, reallocated
\* or freed in any order, and the allocator's records are damaged from then
\* on.  The caller returns Ok, or the allocator ends the process
PushRace ==
    /\ call.op = "set_owner (two callers)"
    /\ \E c \in Callers :
        /\ call.at[c] \in {"push", "pushing"}
        /\ Overlaps(c)
        /\ \/ \E len \in {Len(call.before) + 1, Len(owners) + 1} :
              \E left \in raced_owners(call.before, {call.owner[d] : d \in Callers}, len) :
                /\ Entries([self EXCEPT !.owners = left]) <= MaxEntries
                /\ owners' = left
                /\ process' = "damaged"
                /\ call' = [call EXCEPT !.at[c] = "returned", !.raced = TRUE]
                /\ result' = [result EXCEPT ![c] = Ok]
                /\ UNCHANGED <<address, data, permissions, registered>>
           \/ /\ call' = [call EXCEPT !.at = [d \in Callers |-> "aborted"],
                                      !.raced = TRUE]
              /\ result' = [d \in Callers |-> Aborted]
              /\ process' = "dead"
              /\ UNCHANGED <<address, data, permissions, owners, registered>>

\* the process whose allocator records a racing push has damaged is ended
\* by the allocator (SIGABRT) at a later allocation or release: while a
\* caller is still in the method, after both have returned, or after any
\* number of further calls on the object have returned.  No call is in
\* flight in a dead process and none is made
Dead == [op |-> "dead"]

ProcessDies ==
    /\ process = "damaged"
    /\ process' = "dead"
    /\ call' = Dead
    /\ UNCHANGED <<address, data, permissions, owners, registered, result>>

\* both callers have returned; the object is ready for the next call
LeaveSetOwner ==
    /\ call.op = "set_owner (two callers)"
    /\ \A c \in Callers : call.at[c] = "returned"
    /\ call' = Idle
    /\ result' = None
    /\ UNCHANGED <<address, data, permissions, owners, registered, process>>

\* the result of a call made alone is taken
ReturnAlone ==
    /\ call.op \notin {"set_owner (two callers)", Dead.op}
    /\ Return

NextRace ==
    \/ EnterSetOwner
    \/ CheckSetOwner
    \/ FailSetOwner
    \/ EnterPush
    \/ PushSetOwner
    \/ PushRace
    \/ ProcessDies
    \/ LeaveSetOwner
    \/ SetPermissions
    \/ AppendNonSentried
    \/ AppendSentried
    \/ ReturnAlone

SpecRace == Init /\ [][NextRace]_vars

(***************************************************************************)
(* Properties.                                                             *)
(***************************************************************************)
IsPrefix(a, b) == Len(a) <= Len(b) /\ SubSeq(b, 1, Len(a)) = a

Last(vec) == vec[Len(vec)]

\* C1: set_owner succeeds exactly when the owner's expected data index is
\* the data length, its expected permissions index is the permissions
\* length and the index argument is the owners length; it then appends that
\* one entry to the owners history and leaves data and permissions alone.
C1_SetOwnerContract ==
    [][ call'.op = "set_owner" =>
          LET matches == /\ call'.owner.expected_data_index = Len(data)
                         /\ call'.owner.expected_permissions_index = Len(permissions)
                         /\ call'.index = Len(owners)
          IN  /\ (result' = Ok) <=> matches
              /\ matches => /\ owners' = Append(owners, call'.owner)
                            /\ data' = data
                            /\ permissions' = permissions ]_vars

\* a set_owner that succeeded on a history that already had an owner
C1_Witness ==
    /\ call.op = "set_owner"
    /\ result = Ok
    /\ Len(owners) = 2
    /\ Last(owners) = call.owner

\* C2: set_permissions succeeds exactly when the snapshot's expected data
\* index is the data length, its expected owners index is the owners length
\* and the index argument is the permissions length; it then appends that one
\* snapshot to the permissions history and leaves data and owners alone.
C2_SetPermissionsContract ==
    [][ call'.op = "set_permissions" =>
          LET matches == /\ call'.permissions.expected_data_index = Len(data)
                         /\ call'.permissions.expected_owners_index = Len(owners)
                         /\ call'.index = Len(permissions)
          IN  /\ (result' = Ok) <=> matches
              /\ matches => /\ permissions' = Append(permissions, call'.permissions)
                            /\ data' = data
                            /\ owners' = owners ]_vars

\* a set_permissions that succeeded on a history that already had a snapshot
C2_Witness ==
    /\ call.op = "set_permissions"
    /\ result = Ok
    /\ Len(permissions) = 2
    /\ Last(permissions) = call.permissions

\* C3: a set_owner, set_permissions or sentried append that returns an error
\* leaves the data log, the owners history and the permissions history as
\* they were.
C3_RejectionAtomicity ==
    [][ (call'.op \in {"set_owner", "set_permissions", "append"} /\ result'.tag = "Err")
          => (data' = data /\ owners' = owners /\ permissions' = permissions) ]_vars

\* a set_owner refused on a sequence that has one owner (the owner index
\* is right, an expected index is not)
C3_Witness ==
    /\ call.op = "set_owner"
    /\ result.tag = "Err"
    /\ Len(owners) = 1
    /\ call.index = 1

\* C4: an entry appended to the owners history records the data length and
\* the permissions length of the moment before it was appended, and an entry
\* appended to the permissions history records the data length and the
\* owners length of that moment.
C4_MonotonicCausality ==
    [][ /\ Len(owners') > Len(owners) =>
              /\ Last(owners').expected_data_index = Len(data)
              /\ Last(owners').expected_permissions_index = Len(permissions)
        /\ Len(permissions') > Len(permissions) =>
              /\ Last(permissions').expected_data_index = Len(data)
              /\ Last(permissions').expected_owners_index = Len(owners) ]_vars

\* a snapshot appended after a value and an owner, recording both lengths
C4_Witness ==
    /\ call.op = "set_permissions"
    /\ result = Ok
    /\ Len(data) = 1
    /\ Len(owners) = 1
    /\ Last(permissions).expected_data_index = 1
    /\ Last(permissions).expected_owners_index = 1
    /\ Last(owners).expected_data_index = 1

\* C5: in every step the data log, the owners history and the permissions
\* history of before are prefixes of those of after.
C5_AppendOnly ==
    [][ /\ IsPrefix(data, data')
        /\ IsPrefix(owners, owners')
        /\ IsPrefix(permissions, permissions') ]_vars

\* values appended to a log that already held a value
C5_Witness ==
    /\ call.op = "append"
    /\ result = Ok
    /\ call.values # <<>>
    /\ Len(data) > Len(call.values)

\* C6: a sentried append succeeds iff the expected index is the data length;
\* then the log is the old log followed by the values, owners and
\* permissions unchanged; otherwise it returns InvalidSuccessor with the
\* data length and appends nothing.
C6_SentriedAppend ==
    [][ (call'.op = "append" /\ is_sentried(address.kind)) =>
          IF call'.expected_index = Len(data)
          THEN /\ result' = Ok
               /\ data' = data \o call'.values
               /\ owners' = owners
               /\ permissions' = permissions
          ELSE /\ result' = Err("InvalidSuccessor", Len(data))
               /\ data' = data ]_vars

\* two values appended in order behind an earlier value of a sentried log
C6_Witness ==
    /\ is_sentried(address.kind)
    /\ call.op = "append"
    /\ result = Ok
    /\ call.values = <<"a", "b">>
    /\ call.expected_index = 1
    /\ data = <<"b", "a", "b">>

\* C7: a non-sentried append always succeeds and leaves the old log followed
\* by the values, owners and permissions unchanged.
C7_NonSentriedAppend ==
    [][ (call'.op = "append" /\ ~is_sentried(address.kind)) =>
          /\ result' = Ok
          /\ data' = data \o call'.values
          /\ owners' = owners
          /\ permissions' = permissions ]_vars

\* two values appended in order behind an earlier value of a non-sentried log
C7_Witness ==
    /\ ~is_sentried(address.kind)
    /\ call.op = "append"
    /\ result = Ok
    /\ call.values = <<"a", "b">>
    /\ data = <<"b", "a", "b">>

\* C8: the key of the last owners entry is permitted every request, whatever
\* the permissions history holds.
C8_OwnerAlwaysPermitted ==
    (call.op = "is_permitted" /\ owners # <<>> /\ call.user = Last(owners).public_key)
        => result = Returned(TRUE)

\* the owner asks for a request that the latest snapshot denies to its key
C8_Witness ==
    /\ call.op = "is_permitted"
    /\ owners # <<>>
    /\ permissions # <<>>
    /\ call.user = Last(owners).public_key
    /\ call.user \in DOMAIN Last(permissions).permissions
    /\ call.request \in DOMAIN Last(permissions).permissions[call.user]
    /\ ~Last(permissions).permissions[call.user][call.request]
    /\ call.request.type = "Cmd"
    /\ result = Returned(TRUE)

\* C9: on a public sequence every query is permitted to every key.
C9_PublicQueriesPermitted ==
    (call.op = "is_permitted" /\ is_public(address.kind) /\ call.request.type = "Query")
        => result = Returned(TRUE)

\* a query on a public non-sentried sequence without owner whose latest
\* snapshot denies that query to the asking key
C9_Witness ==
    /\ call.op = "is_permitted"
    /\ address.kind = "Public"
    /\ owners = <<>>
    /\ permissions # <<>>
    /\ call.request.type = "Query"
    /\ call.user \in DOMAIN Last(permissions).permissions
    /\ call.request \in DOMAIN Last(permissions).permissions[call.user]
    /\ ~Last(permissions).permissions[call.user][call.request]
    /\ result = Returned(TRUE)

\* C10 as claimed: a private sequence without owner permits nothing.
C10_PrivateNoOwnerDeniesAll ==
    (call.op = "is_permitted" /\ ~is_public(address.kind) /\ owners = <<>>)
        => result = Returned(FALSE)

\* C10 as amended: a private sequence without owner permits nothing while
\* it has no permission snapshot; once it has one, a request is permitted
\* exactly when the latest snapshot lists the key and marks the request true.
C10_PrivateNoOwnerFollowsSnapshot ==
    (call.op = "is_permitted" /\ ~is_public(address.kind) /\ owners = <<>>)
        => result = Returned(
               /\ permissions # <<>>
               /\ call.user \in DOMAIN Last(permissions).permissions
               /\ call.request \in DOMAIN Last(permissions).permissions[call.user]
               /\ Last(permissions).permissions[call.user][call.request])

\* a private sequence without owner, after a set_permissions, asked by a key
\* its snapshot lists
C10_Witness ==
    /\ call.op = "is_permitted"
    /\ ~is_public(address.kind)
    /\ owners = <<>>
    /\ permissions # <<>>
    /\ call.user \in DOMAIN Last(permissions).permissions
    /\ call.request \in DOMAIN Last(permissions).permissions[call.user]

\* the decision a permission table holds for a key and a request, if any
Decision(table, user, request) ==
    IF user \in DOMAIN table /\ request \in DOMAIN table[user]
    THEN Some(table[user][request])
    ELSE None

\* C11: without owner and without snapshot every command is denied to every
\* key, on all four flavours.
C11_NoOwnerNoSnapshotDeniesCommands ==
    (call.op = "is_permitted" /\ owners = <<>> /\ permissions = <<>>
        /\ call.request.type = "Cmd")
        => result = Returned(FALSE)

\* an append command asked of a fresh public sequence
C11_Witness ==
    /\ call.op = "is_permitted"
    /\ is_public(address.kind)
    /\ owners = <<>>
    /\ permissions = <<>>
    /\ call.request = Cmd("Append")
    /\ result = Returned(FALSE)

\* the sequence cut down to its last owner and its last snapshot
Latest(s) ==
    [s EXCEPT !.owners = IF @ = <<>> THEN <<>> ELSE <<Last(@)>>,
              !.permissions = IF @ = <<>> THEN <<>> ELSE <<Last(@)>>]

\* C12: is_permitted and is_owner give the answer they give on the sequence
\* that holds the last owner and the last snapshot only; a former owner that
\* the latest snapshot does not grant a command is denied it; is_owner is
\* true iff the owners history is non-empty and its last key is the user.
C12_LatestEntriesDecide ==
    /\ call.op = "is_permitted" =>
          /\ result = Returned(Data_is_permitted(Latest(self), call.request, call.user))
          /\ (/\ owners # <<>>
              /\ call.user # Last(owners).public_key
              /\ call.request.type = "Cmd"
              /\ \/ permissions = <<>>
                 \/ ~Permissions_is_permitted(address.kind, Last(permissions),
                                              call.user, call.request))
                => result = Returned(FALSE)
    /\ call.op = "is_owner" =>
          /\ result = Returned(is_owner(Latest(self), call.user))
          /\ result = Returned(owners # <<>> /\ Last(owners).public_key = call.user)

\* a former owner, replaced by another key, asks for a command
C12_Witness ==
    /\ call.op = "is_permitted"
    /\ Len(owners) = 2
    /\ owners[1].public_key = call.user
    /\ owners[2].public_key # call.user
    /\ call.request.type = "Cmd"
    /\ result = Returned(FALSE)

\* C13: on a private sequence with an owner and a snapshot, a key that is not
\* the owner is permitted exactly the requests its entry of the latest
\* snapshot marks true; a key without entry is denied everything.
C13_PrivateSnapshotDecides ==
    (/\ call.op = "is_permitted"
     /\ ~is_public(address.kind)
     /\ owners # <<>>
     /\ permissions # <<>>
     /\ call.user # Last(owners).public_key)
        => result = Returned(
               Decision(Last(permissions).permissions, call.user, call.request)
                   = Some(TRUE))

\* a listed key that is not the owner is granted a request by its entry
C13_Witness ==
    /\ call.op = "is_permitted"
    /\ ~is_public(address.kind)
    /\ owners # <<>>
    /\ permissions # <<>>
    /\ call.user # Last(owners).public_key
    /\ Decision(Last(permissions).permissions, call.user, call.request) = Some(TRUE)
    /\ result = Returned(TRUE)

\* C14: on a public sequence a command of a key that is not the owner is
\* decided by the key's own entry when it covers the command, else by the
\* Anyone entry when that covers it, else it is denied.
C14_PublicAnyoneFallback ==
    (/\ call.op = "is_permitted"
     /\ is_public(address.kind)
     /\ call.request.type = "Cmd"
     /\ permissions # <<>>
     /\ (owners = <<>> \/ call.user # Last(owners).public_key))
        => LET table == Last(permissions).permissions
               own == Decision(table, call.user, call.request)
               any == Decision(table, Anyone, call.request)
           IN  result = Returned(IF own # None THEN own.value
                                 ELSE IF any # None THEN any.value
                                 ELSE FALSE)

\* a listed key whose entry does not mention the command gets what Anyone
\* is granted
C14_Witness ==
    /\ call.op = "is_permitted"
    /\ is_public(address.kind)
    /\ call.request.type = "Cmd"
    /\ permissions # <<>>
    /\ (owners = <<>> \/ call.user # Last(owners).public_key)
    /\ call.user \in DOMAIN Last(permissions).permissions
    /\ Decision(Last(permissions).permissions, call.user, call.request) = None
    /\ Decision(Last(permissions).permissions, Anyone, call.request) = Some(TRUE)
    /\ result = Returned(TRUE)

\* C15: index resolution against a collection of length len: FromStart(n)
\* resolves to n and FromEnd(n) to len - n, each exactly when n <= len; every
\* other index resolves to None, with no wraparound and no underflow.
C15_IndexResolution ==
    call.op = "to_absolute_index" =>
        LET n == call.index.n
            len == call.count
        IN  /\ (call.index.from = "Start" /\ n <= len) => result = Returned(Some(n))
            /\ (call.index.from = "End" /\ n <= len) => result = Returned(Some(len - n))
            /\ n > len => result = Returned(None)

\* a FromEnd index one beyond the start of a non-empty log resolves to None
C15_Witness ==
    /\ call.op = "to_absolute_index"
    /\ call.count = 1
    /\ call.index = FromEnd(2)
    /\ result = Returned(None)

\* the collection a range query reads
RangeTarget ==
    IF call.op = "in_range" THEN data
    ELSE IF call.op = "owner_history_range" THEN owners
    ELSE permissions

\* C16: in_range, owner_history_range and permission_history_range return
\* Some exactly when both bounds resolve against the length of the collection
\* and the resolved start is at most the resolved end, and then the entries at
\* the positions [start, end) in log order (none when the bounds are equal);
\* otherwise they return None.
C16_RangeQueries ==
    call.op \in {"in_range", "owner_history_range", "permission_history_range"} =>
        LET vec == RangeTarget
            a == to_absolute_index(call.start, Len(vec))
            b == to_absolute_index(call.end, Len(vec))
        IN  IF a # None /\ b # None /\ a.value <= b.value
            THEN /\ result.value.tag = "Some"
                 /\ Len(result.value.value) = b.value - a.value
                 /\ \A k \in 1..(b.value - a.value) :
                        result.value.value[k] = vec[a.value + k]
            ELSE result = Returned(None)

\* a range from the second position to the end of a log of two values
C16_Witness ==
    /\ call.op = "in_range"
    /\ data = <<"a", "b">>
    /\ call.start = FromStart(1)
    /\ call.end = FromEnd(0)
    /\ result = Returned(Some(<<"b">>))

ReadAccessors ==
    {"get", "current_data_entry", "in_range", "owner_at", "permissions_at",
     "owner_history_range", "permission_history_range", "is_permitted", "is_owner"}

\* the answer of a positional read: Some exactly for a position strictly
\* below the length of the collection it reads
InBoundsOnly ==
    /\ call.op = "get" =>
        /\ result.value.tag \in {"Some", "None"}
        /\ result.value.tag = "Some" <=> call.index < Len(data)
    /\ call.op = "owner_at" =>
        /\ result.value.tag \in {"Some", "None"}
        /\ result.value.tag = "Some" <=>
            \E i \in 0..(Len(owners) - 1) :
                to_absolute_index(call.index, Len(owners)) = Some(i)
    /\ call.op = "permissions_at" =>
        /\ result.value.tag \in {"Some", "None"}
        /\ result.value.tag = "Some" <=>
            \E i \in 0..(Len(permissions) - 1) :
                to_absolute_index(call.index, Len(permissions)) = Some(i)

\* C17: the read accessors never change the data log, the owners history or
\* the permissions history, and answer an out-of-range request with None and
\* not with an error: get(i) is Some iff i is below the data length, owner_at
\* and permissions_at are Some iff the index resolves to a position strictly
\* below the length of the history.
C17_ReadsArePure ==
    [][call'.op \in ReadAccessors =>
        /\ UNCHANGED <<address, data, permissions, owners, process>>
        /\ result'.tag = "Value"
        /\ InBoundsOnly']_vars

\* owner_at(FromEnd(0)) of a sequence that has an owner is None
C17_Witness ==
    /\ call.op = "owner_at"
    /\ owners # <<>>
    /\ call.index = FromEnd(0)
    /\ result = Returned(None)

\* the shell a call returned, against the object it was taken of
ShellOf(t) ==
    /\ result.tag = "Value"
    /\ result.value.address = address
    /\ result.value.data = <<>>
    /\ result.value.owners =
        SelectSeq(owners, LAMBDA owner : owner.expected_data_index <= t)
    /\ result.value.permissions =
        SelectSeq(permissions, LAMBDA perm : perm.expected_data_index <= t)
    /\ t = Len(data) =>
        /\ result.value.owners = owners
        /\ result.value.permissions = permissions

\* C18: shell(as_of_index), when the index resolves to t against the current
\* data length, returns a sequence of the same flavour and address with an
\* empty data log and, in their original order, exactly the owners and
\* permissions entries recorded with expected_data_index <= t; the sequence
\* itself is unchanged, and t equal to the data length retains every entry.
C18_ShellKeepsHistoryUpTo ==
    [][call'.op = "shell" =>
        /\ UNCHANGED <<address, data, permissions, owners, process>>
        /\ \A t \in 0..Len(data) :
            (to_absolute_index(call'.index, Len(data)) = Some(t)) => ShellOf(t)']_vars

\* a shell as of index 0 of a sequence whose second owner was set after the
\* first append keeps the first owner and drops the second
C18_Witness ==
    /\ call.op = "shell"
    /\ call.index = FromStart(0)
    /\ Len(data) > 0
    /\ Len(owners) = 2
    /\ owners[1].expected_data_index = 0
    /\ owners[2].expected_data_index > 0
    /\ result.tag = "Value"
    /\ result.value.owners = <<owners[1]>>
    /\ result.value.data = <<>>

\* C19: a failing set_owner or set_permissions names the field that
\* mismatched: the error of a data-index mismatch (InvalidSuccessor in both
\* methods) is not the error returned when the data index matched and it was
\* the owners index or the permissions index that mismatched.
C19_ErrorNamesMismatchedField ==
    /\ (/\ call.op = "set_owner"
        /\ result.tag = "Err"
        /\ call.owner.expected_data_index = expected_data_index(self))
            => result.error # "InvalidSuccessor"
    /\ (/\ call.op = "set_permissions"
        /\ result.tag = "Err"
        /\ call.permissions.expected_data_index = expected_data_index(self))
            => result.error # "InvalidSuccessor"

\* C20: PublicKey::verify of a key and a signature of two distinct schemes
\* among Ed25519, Bls and BlsShare returns SigningKeyTypeMismatch, for every
\* data; never Ok and never InvalidSignature.
C20_SchemeMismatchRejected ==
    (call.op = "verify" /\ call.key.scheme # call.signature.scheme)
        => result = SigningKeyTypeMismatch

\* a Bls key is asked to verify the share that the BlsShare keypair of the
\* same secret made over the same data
C20_Witness ==
    /\ call.op = "verify"
    /\ call.key.scheme = "Bls"
    /\ call.signature.scheme = "BlsShare"
    /\ call.signature.sig.share = native_sign(call.key.key.public_of, call.data)
    /\ result = SigningKeyTypeMismatch

\* the scheme's native verification of the call's key, signature and data
NativelyValid ==
    IF call.key.scheme = "BlsShare"
    THEN native_verify(call.key.key, call.signature.sig.share, call.data)
    ELSE native_verify(call.key.key, call.signature.sig, call.data)

\* C21: when key and signature name the same scheme, PublicKey::verify
\* returns Ok if and only if the scheme's native verification accepts (key,
\* signature, data) and InvalidSignature otherwise; every call returns exactly
\* one of Ok, InvalidSignature and SigningKeyTypeMismatch.
C21_VerifyFollowsNativeVerification ==
    call.op = "verify" =>
        /\ result \in {Ok, InvalidSignature, SigningKeyTypeMismatch}
        /\ call.key.scheme = call.signature.scheme =>
            /\ result = Ok <=> NativelyValid
            /\ result = InvalidSignature <=> ~NativelyValid

\* the signature the key's own secret made over another message is refused
C21_Witness ==
    /\ call.op = "verify"
    /\ call.key.scheme = "Ed25519"
    /\ call.signature.scheme = "Ed25519"
    /\ call.signature.sig.signer = call.key.key.public_of
    /\ call.signature.sig.over # call.data
    /\ result = InvalidSignature

\* C22: Keypair::sign dispatches by scheme: the signature names the scheme of
\* the keypair and of its public key, and the signature of a share keypair
\* built by new_bls_share(index, ..) carries that index, for every message;
\* the conversions of a SignatureShare and of an (index, share) pair into a
\* Signature keep the index and the share.
C22_SignKeepsSchemeAndIndex ==
    /\ call.op = "sign" =>
        /\ result.value.scheme = call.keypair.scheme
        /\ result.value.scheme = public_key(call.keypair).scheme
        /\ call.keypair.scheme = "BlsShare" =>
            /\ result.value.sig.index = call.keypair.index
            /\ result.value.sig.share = native_sign(call.keypair.secret, call.data)
    /\ call.op = "from_share" =>
        /\ result.value.scheme = "BlsShare"
        /\ result.value.sig = call.sig
    /\ call.op = "from_pair" =>
        /\ result.value.scheme = "BlsShare"
        /\ result.value.sig.index = call.index
        /\ result.value.sig.share = call.share

\* the share keypair of index 1 signs, and the signature carries index 1
C22_Witness ==
    /\ call.op = "sign"
    /\ call.keypair.scheme = "BlsShare"
    /\ call.keypair.index = 1
    /\ result.value.scheme = "BlsShare"
    /\ result.value.sig.index = 1

\* the values of the kind the call compares, and the order of that kind
Compared == IF call.op = "cmp_public_key" THEN PublicKeys ELSE Signatures

CmpOf(a, b) ==
    IF call.op = "cmp_public_key" THEN PublicKey_cmp(a, b) ELSE Signature_cmp(a, b)

\* C23: the order of PublicKey values and of Signature values is total and
\* consistent with equality: cmp(a, b) is Equal iff a = b, Less iff
\* cmp(b, a) is Greater, the order is transitive, and equal values hash
\* equally.
C23_OrderTotalAndConsistent ==
    call.op \in {"cmp_public_key", "cmp_signature"} =>
        LET a == call.a
            b == call.b
            r == result.value.cmp
        IN  /\ r \in {"Less", "Equal", "Greater"}
            /\ r = "Equal" <=> a = b
            /\ r = "Less" <=> CmpOf(b, a) = "Greater"
            /\ r = "Greater" <=> CmpOf(b, a) = "Less"
            /\ \A c \in Compared :
                (r = "Less" /\ CmpOf(b, c) = "Less") => CmpOf(a, c) = "Less"
            /\ a = b => result.value.hash_a = result.value.hash_b

\* two keys of the same secret and of different schemes are ordered, not equal
C23_Witness ==
    /\ call.op = "cmp_public_key"
    /\ call.a.key = call.b.key
    /\ call.a.scheme = "Ed25519"
    /\ call.b.scheme = "Bls"
    /\ result.value.cmp = "Less"

\* C24: the text form is lossless: for every PublicKey of each scheme, every
\* XorName and every sequence Address, decoding the z-base-32 text of the
\* value succeeds and gives the value back.
C24_TextRoundTrip ==
    call.op \in {"decode_public_key", "decode_xorname", "decode_address"} =>
        result = Returned(call.of)

\* an address whose bytes do not fill the last group of five bits comes back
\* from its text of 22 characters
C24_Witness ==
    /\ call.op = "decode_address"
    /\ call.of = [kind |-> "PrivateSentried", name |-> 255, tag |-> 15000]
    /\ Len(call.encoded) = 22
    /\ call.encoded[1] = BaseCode
    /\ result = Returned(call.of)

\* the transfer a request carries
TransferOf(request) ==
    IF request.type = "ValidateTransfer" THEN request.signed_transfer.transfer
    ELSE request.proof.signed_transfer.transfer

\* C25: MoneyRequest::dest_address routes by the XOR name of a key:
\* RegisterTransfer and ValidateTransfer go to the name of transfer.id.actor,
\* PropagateTransfer goes to the name of transfer.to, GetBalance and
\* GetHistory have no destination.
C25_DestAddressRoutes ==
    call.op = "dest_address" =>
        LET request == call.request
        IN  /\ request.type \in {"RegisterTransfer", "ValidateTransfer"} =>
                result = Returned(Some(XorName_from(TransferOf(request).id.actor,
                                                    call.random)))
            /\ request.type = "PropagateTransfer" =>
                result = Returned(Some(XorName_from(TransferOf(request).to, call.random)))
            /\ request.type \in {"GetBalance", "GetHistory"} => result = Returned(None)

\* a registration of a transfer between keys of different names goes to the
\* name of the actor
C25_Witness ==
    /\ call.op = "dest_address"
    /\ call.request.type = "RegisterTransfer"
    /\ XorName_from(TransferOf(call.request).id.actor, call.random)
        # XorName_from(TransferOf(call.request).to, call.random)
    /\ result = Returned(Some(XorName_from(TransferOf(call.request).id.actor, call.random)))

\* C26: MoneyRequest::authorisation_kind is None exactly for the requests
\* that carry a proof of agreement (RegisterTransfer, PropagateTransfer);
\* ValidateTransfer needs the mutate-and-transfer-money authorisation,
\* GetBalance the get-balance and GetHistory the get-history authorisation.
C26_AuthorisationKinds ==
    call.op = "authorisation_kind" =>
        LET type == call.request.type
        IN  /\ result = Returned(<<"None">>)
                <=> type \in {"RegisterTransfer", "PropagateTransfer"}
            /\ type = "ValidateTransfer"
                => result = Returned(<<"Misc", "MutAndTransferMoney">>)
            /\ type = "GetBalance" => result = Returned(<<"Money", "GetBalance">>)
            /\ type = "GetHistory" => result = Returned(<<"Money", "GetHistory">>)

\* the registration of an agreed transfer needs no authorisation
C26_Witness ==
    /\ call.op = "authorisation_kind"
    /\ call.request.type = "RegisterTransfer"
    /\ result = Returned(<<"None">>)

\* C27: over any sequence of ValidateTransfer and RegisterTransfer requests
\* a section handles, a request whose TransferId (actor, counter) is already
\* registered is rejected and registers nothing, whatever its destination,
\* amount and restriction; so no TransferId is ever registered twice.
C27_NoTransferIdRegisteredTwice ==
    [][call'.op \in {"validate_transfer", "register_transfer"} =>
        /\ is_registered(registered, call'.transfer.id) =>
            /\ result' = AlreadyRegistered
            /\ registered' = registered
        /\ \A i, j \in 1..Len(registered') :
            registered'[i].id = registered'[j].id => i = j]_vars

\* a registration is rejected for its TransferId, although the registered
\* transfer of that id has another destination
C27_Witness ==
    /\ call.op = "register_transfer"
    /\ result = AlreadyRegistered
    /\ \E i \in 1..Len(registered) :
        /\ registered[i].id = call.transfer.id
        /\ registered[i].to # call.transfer.to

\* C28: the validation of a ValidateTransfer is gated by its restriction:
\* RequireHistory is refused when the actor has no registered transfer,
\* ExpectNoHistory is refused when the actor has one, and with NoRestriction
\* the history never causes a refusal.
C28_RestrictionGatesValidation ==
    call.op = "validate_transfer" =>
        LET transfer == call.transfer
            has == \E i \in 1..Len(registered) :
                        registered[i].id.actor = transfer.id.actor
        IN  /\ (transfer.restrictions = "RequireHistory" /\ ~has) => result.tag = "Err"
            /\ (transfer.restrictions = "ExpectNoHistory" /\ has) => result.tag = "Err"
            /\ (transfer.restrictions = "NoRestriction"
                    /\ ~is_registered(registered, transfer.id)) => result = Ok

\* a new transfer that expects no history is refused for an actor that has a
\* registered transfer
C28_Witness ==
    /\ call.op = "validate_transfer"
    /\ call.transfer.restrictions = "ExpectNoHistory"
    /\ ~is_registered(registered, call.transfer.id)
    /\ \E i \in 1..Len(registered) : registered[i].id.actor = call.transfer.id.actor
    /\ result = HistoryNotExpected

\* the snapshot at the index of the call, None when there is none
SnapshotAsked == permissions_at(self, call.index)

\* C29: the permission accessors of the Data wrapper tell their failures
\* apart: the public_* accessors on a private variant and the private_*
\* accessors on a public variant return NoSuchData whatever the index; on
\* the matching visibility they return NoSuchEntry when the index has no
\* snapshot or the user has no entry in it, and otherwise the stored
\* snapshot or permission set unchanged.
C29_PermissionAccessorFailures ==
    LET public_op == call.op \in {"public_permissions_at", "public_user_permissions_at"}
        private_op == call.op \in {"private_permissions_at", "private_user_permissions_at"}
        user_op == call.op \in {"public_user_permissions_at", "private_user_permissions_at"}
    IN  (public_op \/ private_op) =>
            IF public_op # is_public(address.kind) THEN result = NoSuchData
            ELSE IF SnapshotAsked = None THEN result = NoSuchEntry
            ELSE IF ~user_op THEN result = Returned(SnapshotAsked.value)
            ELSE IF call.user \notin DOMAIN SnapshotAsked.value.permissions
            THEN result = NoSuchEntry
            ELSE result = Returned(SnapshotAsked.value.permissions[call.user])

\* a public sequence has a snapshot at the index, but the user has no entry
C29_Witness ==
    /\ call.op = "public_user_permissions_at"
    /\ is_public(address.kind)
    /\ SnapshotAsked # None
    /\ SnapshotAsked.value.permissions # <<>>
    /\ call.user \notin DOMAIN SnapshotAsked.value.permissions
    /\ result = NoSuchEntry

\* what a constructor returns: an empty sequence at the address of its
\* variant, name and tag
Constructed ==
    call.op = "new" =>
        /\ self = result.value
        /\ data = <<>> /\ owners = <<>> /\ permissions = <<>>
        /\ expected_data_index(self) = 0
        /\ expected_owners_index(self) = 0
        /\ expected_permissions_index(self) = 0
        /\ address = [kind |-> call.kind, name |-> call.name, tag |-> call.tag]
        /\ is_public(address.kind) <=> call.kind \in {"PublicSentried", "Public"}
        /\ is_sentried(address.kind) <=> call.kind \in {"PublicSentried", "PrivateSentried"}

\* C30: the address is fixed at creation: each of the four constructors
\* yields an empty sequence (all three expected indices 0) at the address of
\* its variant with the given name and tag, and no operation, successful or
\* rejected, changes the address; a shell has the address of its original.
C30_AddressFixedAtCreation ==
    /\ []Constructed
    /\ [][/\ address' = address
          /\ (call'.op = "shell" /\ result'.tag = "Value")
                => result'.value.address = address]_vars

\* a shell of a sequence that has grown in all three collections
C30_Witness ==
    /\ call.op = "shell"
    /\ result.tag = "Value"
    /\ data # <<>> /\ owners # <<>> /\ permissions # <<>>
    /\ result.value.address = address
    /\ address.kind = "PrivateSentried"

\* both callers of a set_owner without an outer lock made their checks
\* against the same lengths and passed them, which only checks made before
\* either push can do; each push ran as a step of its own, and both callers
\* are done
BothCheckedBeforeEitherPush ==
    /\ call.op = "set_owner (two callers)"
    /\ \A c \in Callers :
          /\ call.at[c] = "returned"
          /\ call.read[c] # None
          /\ call.failed[c] = None
    /\ call.read[1] = call.read[2]
    /\ ~call.raced

\* C31: the check-then-append of set_owner is not atomic.  When two
\* callers without an outer lock both make the index checks against the
\* same lengths before either pushes, and the check and the push are
\* separate steps, both pushes happen: both callers return Ok, the owners
\* history is the one they found followed by the two entries, the two
\* entries record the same expected data and permissions indices and were
\* sent for the same owners index, and the later of them was appended at an
\* owners length that its caller's index does not name, which monotonic
\* causality forbids.
C31_UnserialisedSetOwnerDuplicates ==
    BothCheckedBeforeEitherPush =>
        LET n == Len(owners)
            seen == call.read[1].value
        IN  /\ \A c \in Callers : result[c] = Ok
            /\ n = seen.owners + 2
            /\ SubSeq(owners, 1, n - 2) = call.before
            /\ \/ <<owners[n - 1], owners[n]>> = <<call.owner[1], call.owner[2]>>
               \/ <<owners[n - 1], owners[n]>> = <<call.owner[2], call.owner[1]>>
            /\ owners[n - 1].expected_data_index = owners[n].expected_data_index
            /\ owners[n - 1].expected_permissions_index
                   = owners[n].expected_permissions_index
            /\ owners[n].expected_data_index = seen.data
            /\ owners[n].expected_permissions_index = seen.permissions
            /\ call.index[1] = call.index[2]
            /\ call.index[2] = n - 2
            /\ call.index[2] # Len(owners) - 1

\* two callers with different keys made their checks against the same
\* lengths on a history that already had an owner, each push ran as a step
\* of its own, and both entries are in the history
C31_Witness ==
    /\ BothCheckedBeforeEitherPush
    /\ call.owner[1].public_key # call.owner[2].public_key
    /\ \A c \in Callers : result[c] = Ok
    /\ Len(owners) = 3
    /\ owners[2].expected_data_index = owners[3].expected_data_index
    /\ owners[2] # owners[3]

\* the index triples <<d, o, p>> a caller can have observed in the state s or
\* in an earlier one: the three lengths never shrink (C5)
ObservedUpTo(s) ==
    (0..Len(s.data)) \X (0..Len(s.owners)) \X (0..Len(s.permissions))

\* set_owner and set_permissions refuse, on s, every request prepared
\* against the observed indices t, and leave s as it is
RefusesPrepared(s, t) ==
    /\ \A pk \in Keys :
          LET r == set_owner(s, Owner(pk, t[1], t[3]), t[2])
          IN  r.result.tag = "Err" /\ r.self = s
    /\ \A table \in Tables(s.address.kind) :
          LET r == set_permissions(s, Permissions(table, t[1], t[2]), t[3])
          IN  r.result.tag = "Err" /\ r.self = s

\* the indices the request of a set_owner or set_permissions call was
\* prepared against
PreparedAgainst(c) ==
    IF c.op = "set_owner"
    THEN <<c.owner.expected_data_index, c.index, c.owner.expected_permissions_index>>
    ELSE <<c.permissions.expected_data_index, c.permissions.expected_owners_index,
           c.index>>

\* C32: with the calls made one at a time, once a mutation has changed a
\* length (a successful set_owner or set_permissions, or an append of at
\* least one value), every set_owner and set_permissions request prepared
\* against indices observed before it is refused and changes nothing; so of
\* two such requests prepared against the same state the second is refused
\* whenever the first succeeded.
C32_StaleRequestsRefused ==
    [][ /\ indices(self') # indices(self) =>
              \A t \in ObservedUpTo(self) : RefusesPrepared(self', t)
        /\ ( /\ call'.op \in {"set_owner", "set_permissions"}
             /\ PreparedAgainst(call') \in ObservedUpTo(self)
             /\ PreparedAgainst(call') # <<Len(data), Len(owners), Len(permissions)>> )
           => /\ result'.tag = "Err"
              /\ self' = self ]_vars

\* a snapshot prepared before the latest owner was set (its data index and
\* the permissions index are current, its owners index is one behind) is
\* refused
C32_Witness ==
    /\ call.op = "set_permissions"
    /\ result.tag = "Err"
    /\ Len(owners) = 1
    /\ Len(data) = 1
    /\ PreparedAgainst(call) = <<1, 0, Len(permissions)>>

\* the values of field f along the history vec never decrease
NonDecreasing(vec, f) ==
    \A i, j \in 1..Len(vec) : i <= j => vec[i][f] <= vec[j][f]

\* C33: in every state reached from a constructor by append, set_owner and
\* set_permissions, no entry of the owners history records a data index
\* beyond the data length or a permissions index beyond the permissions
\* length, no snapshot records a data index beyond the data length or an
\* owners index beyond the owners length, and along each history the
\* recorded data index and the recorded index of the other history never
\* decrease.
C33_RecordedIndicesBounded ==
    /\ \A i \in 1..Len(owners) :
          /\ owners[i].expected_data_index <= Len(data)
          /\ owners[i].expected_permissions_index <= Len(permissions)
    /\ \A j \in 1..Len(permissions) :
          /\ permissions[j].expected_data_index <= Len(data)
          /\ permissions[j].expected_owners_index <= Len(owners)
    /\ NonDecreasing(owners, "expected_data_index")
    /\ NonDecreasing(owners, "expected_permissions_index")
    /\ NonDecreasing(permissions, "expected_data_index")
    /\ NonDecreasing(permissions, "expected_owners_index")

\* two owners set with a value appended in between: the second records a
\* larger data index than the first
C33_Witness ==
    /\ Len(owners) = 2
    /\ Len(data) = 1
    /\ owners[1].expected_data_index = 0
    /\ owners[2].expected_data_index = 1
    /\ call.op = "set_owner"
    /\ result = Ok

\* C34: the two metadata histories record one causal order: for the owner at
\* (0-based) position i and the snapshot at position j, exactly one of the
\* two holds: the snapshot records an owners index above i (it was added
\* after that owner) or the owner records a permissions index above j (it was
\* added after that snapshot).
C34_HistoriesTotallyOrdered ==
    \A i \in 0..(Len(owners) - 1), j \in 0..(Len(permissions) - 1) :
        (permissions[j + 1].expected_owners_index > i)
            # (owners[i + 1].expected_permissions_index > j)

\* an owner, then a snapshot, then a second owner: the snapshot comes after
\* the first owner and before the second
C34_Witness ==
    /\ Len(owners) = 2
    /\ Len(permissions) = 1
    /\ permissions[1].expected_owners_index = 1
    /\ owners[1].expected_permissions_index = 0
    /\ owners[2].expected_permissions_index = 1

\* the histories of the shell a are prefixes of those of b
ShellPrefix(a, b) ==
    /\ IsPrefix(a.owners, b.owners)
    /\ IsPrefix(a.permissions, b.permissions)

\* C35: the owners and the permissions history of a shell are prefixes of the
\* histories of the sequence it was taken of (the filter never drops an
\* entry and keeps a later one), and the shell as of t1 has histories that
\* are prefixes of those of the shell as of t2 whenever t1 <= t2.
C35_ShellHistoriesArePrefixes ==
    (call.op = "shell" /\ result.tag = "Value") =>
        LET t == to_absolute_index(call.index, Len(data)).value
        IN  /\ ShellPrefix(result.value, self)
            /\ \A t1 \in 0..t :
                  ShellPrefix(shell(self, FromStart(t1)).value, result.value)
            /\ \A t2 \in t..Len(data) :
                  ShellPrefix(result.value, shell(self, FromEnd(Len(data) - t2)).value)

\* the shell as of index 0 of a sequence holding an owner set before its one
\* value and a snapshot set after it: it keeps the owner and drops the
\* snapshot, which the shell as of index 1 keeps
C35_Witness ==
    /\ call.op = "shell"
    /\ call.index = FromStart(0)
    /\ Len(data) = 1
    /\ Len(owners) = 1
    /\ Len(permissions) = 1
    /\ owners[1].expected_data_index = 0
    /\ permissions[1].expected_data_index = 1
    /\ result.tag = "Value"
    /\ result.value.owners = owners
    /\ result.value.permissions = <<>>
    /\ shell(self, FromStart(1)).value.permissions = permissions

\* C36: shell(index) returns the NoSuchEntry error, and no shell, exactly when
\* the index does not resolve against the current data length, that is for
\* FromStart(n) or FromEnd(n) with n above the data length as it is at the
\* call, whatever data indices the histories record; the sequence is left as
\* it was.
C36_ShellFailsOnUnresolvedIndex ==
    [][call'.op = "shell" =>
        /\ (result' = NoSuchEntry) <=> (call'.index.n > Len(data))
        /\ (result' # NoSuchEntry) => result'.tag = "Value"
        /\ self' = self]_vars

\* a shell asked as of index 1 of a sequence that holds one owner and no
\* value is refused, and one asked as of index 0 is not
C36_Witness ==
    /\ call.op = "shell"
    /\ call.index = FromStart(1)
    /\ data = <<>>
    /\ Len(owners) = 1
    /\ result = NoSuchEntry
    /\ shell(self, FromStart(0)).tag = "Value"

\* C37: current_data_entry returns None exactly when the data log is empty;
\* otherwise it returns the last appended value with that value's index in
\* the log, so that get of the returned index returns the returned value.
C37_CurrentEntryIsIndexed ==
    call.op = "current_data_entry" =>
        /\ (result.value = None) <=> (data = <<>>)
        /\ data # <<>> =>
              LET e == result.value.value
              IN  /\ e.value = Last(data)
                  /\ get(self, e.index) = Some(e.value)

\* C38, as the specification states it: an append of no values is a
\* successful no-op: without a sentry always, and with a sentry when the
\* expected index is the data length, it returns Ok and leaves the three
\* collections, and so the three expected indices, as they were; and a
\* sentried append followed by a second one that carries the same expected
\* index: both succeed exactly when the first carried no value.
C38_SameIndexTwiceIffFirstEmpty ==
    [][call'.op = "append" =>
        /\ ( /\ call'.values = <<>>
             /\ is_sentried(address.kind) => call'.expected_index = Len(data) )
           => /\ result' = Ok
              /\ self' = self
              /\ indices(self') = indices(self)
        /\ is_sentried(address.kind) =>
              \A again \in ValueLists :
                  ( /\ result' = Ok
                    /\ append_Sentried(self', again, call'.expected_index).result = Ok )
                  <=> call'.values = <<>> ]_vars

\* C38, amended: an append of no values is a successful no-op: without a
\* sentry always, and with a sentry when the expected index is the data
\* length, it returns Ok and leaves the three collections, and so the three
\* expected indices, as they were; and a sentried append followed by a
\* second one that carries the same expected index: both succeed exactly
\* when the first had the right expected index and carried no value.  An
\* append of no values with a stale expected index is refused, and so is the
\* second.
C38_EmptyAppendIsNoOp ==
    [][call'.op = "append" =>
        /\ ( /\ call'.values = <<>>
             /\ is_sentried(address.kind) => call'.expected_index = Len(data) )
           => /\ result' = Ok
              /\ self' = self
              /\ indices(self') = indices(self)
        /\ is_sentried(address.kind) =>
              \A again \in ValueLists :
                  ( /\ result' = Ok
                    /\ append_Sentried(self', again, call'.expected_index).result = Ok )
                  <=> ( /\ call'.expected_index = Len(data)
                        /\ call'.values = <<>> ) ]_vars

\* a sentried append of no values at the right expected index, on a log that
\* holds a value: it returned Ok and a second append at the same index is
\* still accepted
C38_Witness ==
    /\ call.op = "append"
    /\ is_sentried(address.kind)
    /\ call.values = <<>>
    /\ call.expected_index = 1
    /\ Len(data) = 1
    /\ result = Ok
    /\ append_Sentried(self, <<"a">>, call.expected_index).result = Ok

\* the name a key projects to: its first XOR_NAME_LEN bytes
NameOfKeyBytes(key) ==
    XorName(SubSeq(public_to_bytes(key.scheme, key.key), 1, XOR_NAME_LEN))

\* C39: the XOR name of a public key is a function of the key alone: an
\* Ed25519 key maps to its key bytes, a Bls or BlsShare key to the first
\* XOR_NAME_LEN bytes of its byte form, and no byte of the random name the
\* conversion starts from is left; so dest_address of a request is the same
\* on every evaluation.
C39_XorNameOfKeyIsDeterministic ==
    call.op = "dest_address" =>
        /\ \A random \in XorNames :
              Returned(dest_address(call.request, random)) = result
        /\ \A key \in MoneyKeys :
              /\ XorName_from(key, call.random) = NameOfKeyBytes(key)
              /\ key.scheme = "Ed25519" =>
                    serialise_XorName(XorName_from(key, call.random))
                        = public_to_bytes(key.scheme, key.key)

\* the destination of a registration whose actor is a Bls key, computed from
\* a random name that differs from the name of the key
C39_Witness ==
    /\ call.op = "dest_address"
    /\ call.request.type = "RegisterTransfer"
    /\ TransferOf(call.request).id.actor.scheme = "Bls"
    /\ call.random # NameOfKeyBytes(TransferOf(call.request).id.actor)
    /\ result = Returned(Some(NameOfKeyBytes(TransferOf(call.request).id.actor)))

\* C40: the result of PublicKey::verify on a BlsShare signature does not
\* depend on the share index the signature carries: the signature of the
\* same share under any other index gets the same result against the same
\* key and data, although the two signatures are not equal.
C40_VerifyIgnoresShareIndex ==
    (call.op = "verify" /\ call.signature.scheme = "BlsShare") =>
        \A index \in ShareIndices :
            LET other == Signature_from_pair(index, call.signature.sig.share)
            IN  /\ verify(call.key, other, call.data) = result
                /\ index # call.signature.sig.index => other # call.signature

\* a share signature stamped with index 1 that a share key accepts, and that
\* differs from the signature of the same share under index 0
C40_Witness ==
    /\ call.op = "verify"
    /\ call.key.scheme = "BlsShare"
    /\ call.signature.scheme = "BlsShare"
    /\ call.signature.sig.index = 1
    /\ result = Ok
    /\ Signature_from_pair(0, call.signature.sig.share) # call.signature
    /\ verify(call.key, Signature_from_pair(0, call.signature.sig.share), call.data) = Ok

====
